---- MODULE Spec2Model ----
(***************************************************************************)
(* The processing pipeline of backend/src/services/processing_pipeline.py  *)
(* as a state machine.  ProcessingPipeline runs on one asyncio event loop:  *)
(* a coroutine runs without interruption from one suspension point (an     *)
(* await that really waits: a WebSocket send, an aiofiles read or write)   *)
(* to the next.  A status write is followed by the broadcast of the status *)
(* and then by the cache reads and the cache write of the stage; nothing   *)
(* the pipeline shares changes between these waits, so each action below   *)
(* runs from the end of one stage's waits to the start of the next's.      *)
(*                                                                         *)
(* Callbacks the loop schedules itself (the first step of a created task,  *)
(* the wake-up of a cancelled task, the wake-up of a coroutine awaiting a  *)
(* finished task) run in FIFO order: they are kept in `ready`.  Segments   *)
(* resumed by the outside world (an I/O completion, an incoming request)   *)
(* can run at any moment.                                                  *)
(***************************************************************************)
EXTENDS Integers, Sequences, FiniteSets, TLC

\* Bounds of the model
MaxStarts == 3      \* calls of start_processing_task
MaxCancels == 1     \* calls of cancel_processing

Files == {"f1"}
Runs == 1..MaxStarts
Cancels == 1..MaxCancels

\* `file_id not in self.active_processes`
NoRun == 0
\* no record under the redis key processing:{file_id}
NoRec == [status |-> "none"]
\* no cache file {file_id}_{data_type}.json
Absent == 0

\* ProcessingStatus
UPLOADED == "uploaded"
EXTRACTING_AUDIO == "extracting_audio"
TRANSCRIBING == "transcribing"
ANALYZING == "analyzing"
COMPLETED == "completed"
FAILED == "failed"
ProcessingStatus == {UPLOADED, EXTRACTING_AUDIO, TRANSCRIBING, ANALYZING, COMPLETED, FAILED}

\* data_type values the pipeline caches through file_manager.cache_processed_data
DataTypes == {"audio_path", "transcript", "emotions", "complete_results", "error"}

\* AudioFile.file_type by file id
file_type(f) == IF f = "f1" THEN "video" ELSE "audio"

\* ProcessingPipeline._get_progress_for_status
get_progress_for_status(s) ==
    CASE s = UPLOADED -> 10
      [] s = EXTRACTING_AUDIO -> 25
      [] s = TRANSCRIBING -> 50
      [] s = ANALYZING -> 80
      [] s = COMPLETED -> 100
      [] s = FAILED -> 0
      [] OTHER -> 0

\* progress_map of get_upload_status (fallback when no status record is cached)
upload_progress_map(s) ==
    CASE s = UPLOADED -> 10
      [] s = EXTRACTING_AUDIO -> 30
      [] s = TRANSCRIBING -> 60
      [] s = ANALYZING -> 90
      [] s = COMPLETED -> 100
      [] s = FAILED -> 0
      [] OTHER -> 0

VARIABLES
    active_processes,   \* ProcessingPipeline.active_processes: file -> run of its task, or NoRun
    task,               \* the asyncio tasks running process_file, one per run
    status,             \* redis: processing:{file_id} -> status record
    uploaded_files,     \* shared.state.uploaded_files: file -> AudioFile.processing_status
    cache,              \* file_manager cache: file -> data_type -> run that produced the entry
    cancel,             \* the calls of cancel_processing
    ready,              \* the event loop's FIFO of scheduled callbacks
    startCalls,         \* number of calls of start_processing_task so far
    now,                \* datetime.now(), in units of half the retention window
    cache_dir,          \* FileManager.cache_dir: the file {file_id}_{data_type}.json of the key
    put,                \* the calls of FileManager.cache_processed_data
    get,                \* the calls of FileManager.get_cached_data
    store,              \* FileManager.file_metadata, the uploaded files and what
                        \* cleanup_expired_files and delete_uploaded_file returned
    segment,            \* EmotionAnalyzer._analyze_segment: the two predictions
                        \* of a segment and what _fuse_emotions returned
    analysis,           \* a list of EmotionSegment, the EmotionAnalysis made of
                        \* it and what its methods returned
    transcript,         \* a cached Transcript and the transcript update for a
                        \* current_time
    handler,            \* the tasks running websocket_playback_endpoint, one per
                        \* connection
    client,             \* the client's end of each connection
    inbox,              \* the messages each client has received
    sessions,           \* PlaybackManager.sessions
    active_connections, \* playback_manager_ws.active_connections
    received,           \* number of messages the clients have sent so far
    channel,            \* the task running websocket_processing_endpoint or
                        \* websocket_realtime for a connection, and the
                        \* types of the messages it has sent to its client
    request             \* the last request of the HTTP API and its answer

\* the state of the processing pipeline
pvars == <<active_processes, task, status, uploaded_files, cache, cancel, ready,
           startCalls>>
\* the state of the file manager
fmvars == <<now, cache_dir, put, get, store>>
\* the state of the emotion analyzer
avars == <<segment, analysis, transcript>>
\* the state of the playback websockets
rtvars == <<handler, client, inbox, sessions, active_connections, received, channel,
            request>>

vars == <<active_processes, task, status, uploaded_files, cache, cancel, ready,
          startCalls, now, cache_dir, put, get, store, segment, analysis,
          transcript, handler, client, inbox, sessions, active_connections, received, channel, request>>

\* a task that start_processing_task has not created yet; `swallowed` says
\* that a cache write of _cache_results or _cache_error raised and the
\* exception was logged and dropped
IdleTask == [file |-> "none", pc |-> "idle", must_cancel |-> FALSE,
             outcome |-> "none", raised |-> FALSE, written |-> <<>>, emotions |-> Absent,
             swallowed |-> FALSE]
\* a call of cancel_processing that has not been made yet
IdleCancel == [file |-> "none", task |-> NoRun, pc |-> "idle", result |-> "none"]

\* Bounds of the file manager model
MaxPuts == 2        \* calls of cache_processed_data
MaxGets == 2        \* calls of get_cached_data
MaxTime == 3        \* the clock stops here

Puts == 1..MaxPuts
Gets == 1..MaxGets

\* FileManager.max_file_age (max_file_age_hours = 24) in units of `now`
max_file_age == 2

\* file ids and data types of the cache files, and the cache file names
\* {file_id}_{data_type}.json
StoredIds == {"f1", "f2"}
StoreKinds == {"transcript", "complete_results"}
CacheNames == StoredIds \X StoreKinds
\* the cache file the modelled calls of cache_processed_data and
\* get_cached_data are made on
HotNames == {<<"f1", "transcript">>}

\* the values of the `data` dictionaries: what json can encode (a string)
\* and what it cannot (the datetime of Transcript.created_at)
Payloads == {[val |-> "a", type |-> "str"], [val |-> "b", type |-> "datetime"]}

\* results of get_cached_data other than a payload
None == [val |-> "", type |-> "none"]
Raised == [val |-> "", type |-> "raised"]

\* a cache file: `state` is "none" (no file), "torn" (opened for writing,
\* the text not or not wholly written: no JSON document) or "json" (the text
\* json.dumps wrote); val and type are the data of the text and cached_at
\* its time, and for a torn file those of the text that was there before
\* the file was opened; inode is the call that created the file
NoFile == [state |-> "none", val |-> "", type |-> "", cached_at |-> 0, inode |-> 0]

\* calls of cache_processed_data and get_cached_data not made yet; `racing`
\* says that a call was writing the file when its text was read
IdlePut == [name |-> <<"", "">>, pc |-> "idle", data |-> None, cached_at |-> 0,
            inode |-> 0]
IdleGet == [name |-> <<"", "">>, pc |-> "idle", seen |-> NoFile, racing |-> FALSE,
            result |-> None]

\* Bounds of the model of the sweep
MaxSweeps == 1      \* calls of cleanup_expired_files
MaxDeletes == 1     \* calls of delete_uploaded_file

\* FileManager.max_cache_size (max_cache_size_mb = 1000) in units of Size
max_cache_size == 2

\* no entry of file_metadata
NoMeta == [known |-> FALSE, expires_at |-> 0, on_disk |-> FALSE]

\* stats of cleanup_expired_files
NoStats == [files_removed |-> 0, cache_files_removed |-> 0, bytes_freed |-> 0,
            errors |-> 0]

\* what delete_uploaded_file answers: the HTTP status and deleted_items
NoAnswer == [file_id |-> "", status_code |-> 0, deleted_items |-> {}]

\* file_metadata: file id -> metadata (expires_at, and whether the file is
\* at stored_path); metadata_file: cache_dir/file_metadata.json exists;
\* memory: the keys of shared.state.uploaded_files
InitStore == [file_metadata |-> [id \in StoredIds |-> NoMeta],
              metadata_file |-> FALSE,
              memory |-> {},
              sweeps |-> 0, stats |-> NoStats,
              deletes |-> 0, answer |-> NoAnswer]

\* Bound of the model of the fusion: the confidences are the multiples of
\* 1/ConfSteps in [0,1]
ConfSteps == 4

\* EmotionType
Emotions == {"anger", "sadness", "joy", "neutral", "fear", "surprise"}

\* a confidence c in [0,1] is the integer c * Scale
Scale == 1000
Confidences == {k * (Scale \div ConfSteps) : k \in 0..ConfSteps}

\* no result of _fuse_emotions yet
NoFusion == [emotion |-> "", confidence |-> 0]

\* no segment is analyzed
NoSegment == [pc |-> "idle", text_emotion |-> "", text_conf |-> 0,
              audio_emotion |-> "", audio_conf |-> 0, result |-> NoFusion]

\* Bounds of the model of EmotionAnalysis: the segments of a list and the
\* latest end_time of a segment
MaxSegments == 3
MaxEnd == 4

\* no overall emotion yet
NoOverall == [emotion |-> "", confidence |-> 0]

\* no list of segments is given
NoAnalysis == [pc |-> "idle", segments |-> <<>>, overall |-> NoOverall, error |-> "",
               dominant |-> "", time_seconds |-> 0, found |-> 0]

\* Bound of the model of the transcript update: the words of a transcript
MaxWords == 3

\* no transcript is given; word_index -1 is the "..." of no current word
NoTranscript == [pc |-> "idle", words |-> <<>>, current_time |-> 0, word_index |-> -1]

\* Bounds of the model of the playback websockets: the connections and the
\* messages their clients send
MaxConns == 3
MaxMessages == 1
Conns == 1..MaxConns

\* the files the clients ask for: fa has cached emotions and a cached
\* transcript, fb has none, and "missing" is no uploaded file
PlaybackFiles == {"fa", "fb"}
Missing == "missing"

\* current_time of the time_update messages of the clients
Cursors == {-1, 0, 2}

\* no message / a message a client sends
NoMessage == [type |-> "", current_time |-> 0, is_playing |-> FALSE]

\* no iteration over a list of connections
NoLoop == [index |-> 0, list_id |-> 0, disconnected |-> <<>>, first |-> {},
           delivered |-> {}]

\* a handler before its client connects
NoHandler == [pc |-> "new", file |-> "", message |-> NoMessage, stage |-> "",
              loop |-> NoLoop]

\* no PlaybackSession
NoSession == [file_id |-> "", current_time |-> 0, is_playing |-> FALSE,
              is_paused |-> FALSE]

\* no key of active_connections; list_id tells one list object from the
\* next one made for the same key
NoConnections == [present |-> FALSE, list_id |-> 0, list |-> <<>>]

\* no request yet: the endpoint, its argument (the suffix of the uploaded
\* filename, else the file_id), and of the answer the status code, the
\* file_id, the supported_formats and the run that produced the returned data
NoRequest == [endpoint |-> "", arg |-> "", status_code |-> 0, file_id |-> "",
              supported_formats |-> {}, by |-> 0]

\* a connection of /ws/processing or /ws/realtime before its handler runs
NoChannel == [pc |-> "new", endpoint |-> "", file |-> "", first |-> "", sent |-> {},
              stage |-> 0]

\* the pipeline after construction
InitPipeline ==
    /\ active_processes = [f \in Files |-> NoRun]
    /\ task = [r \in Runs |-> IdleTask]
    /\ status = [f \in Files |-> NoRec]
    /\ uploaded_files = [f \in Files |-> UPLOADED]
    /\ cache = [f \in Files |-> [k \in DataTypes |-> Absent]]
    /\ cancel = [c \in Cancels |-> IdleCancel]
    /\ ready = <<>>
    /\ startCalls = 0

\* the file manager after construction, with an empty cache directory
InitFileManager ==
    /\ now = 0
    /\ cache_dir = [n \in CacheNames |-> NoFile]
    /\ put = [i \in Puts |-> IdlePut]
    /\ get = [j \in Gets |-> IdleGet]
    /\ store = InitStore

\* the emotion analyzer before it is given anything
InitAnalyzer ==
    /\ segment = NoSegment
    /\ analysis = NoAnalysis
    /\ transcript = NoTranscript

\* the playback websockets before a client connects
InitRealtime ==
    /\ handler = [c \in Conns |-> NoHandler]
    /\ client = [c \in Conns |-> "new"]
    /\ inbox = [c \in Conns |-> {}]
    /\ sessions = [c \in Conns |-> NoSession]
    /\ active_connections = [f \in PlaybackFiles |-> NoConnections]
    /\ received = 0
    /\ channel = NoChannel
    /\ request = NoRequest

Init ==
    /\ InitPipeline
    /\ InitFileManager
    /\ InitAnalyzer
    /\ InitRealtime

----
\* status_data of _update_processing_status; `by` and `writer` record the run
\* the record is written for and whether the run or cancel_processing wrote it
StatusData(f, s, r, w) ==
    [file_id |-> f, status |-> s, progress |-> get_progress_for_status(s),
     error |-> FALSE, by |-> r, writer |-> w]

\* the `progress` key is missing from a record
NoProgress == -1

\* error_data of _cache_error, which has no file_id and no progress
ErrorData(r) ==
    [file_id |-> "none", status |-> FAILED, progress |-> NoProgress,
     error |-> TRUE, by |-> r, writer |-> "run"]

\* the entry of `written` a status update appends
Written(s) == [status |-> s, progress |-> get_progress_for_status(s)]

\* the position of the scheduled callback x in ready, 0 when it is not scheduled
Scheduled(x) == \E i \in 1..Len(ready) : ready[i] = x

\* the callbacks of the coroutines awaiting task r, in the order they began to wait
RECURSIVE Waiters(_, _)
Waiters(r, c) ==
    IF c > MaxCancels THEN <<>>
    ELSE (IF cancel[c].pc = "await" /\ cancel[c].task = r THEN << <<"cancel", c>> >> ELSE <<>>)
         \o Waiters(r, c + 1)

\* the run start_processing_task creates next
NewRun == CHOOSE r \in Runs : task[r].pc = "idle" /\ \A q \in Runs : q < r => task[q].pc # "idle"
\* the next call of cancel_processing
NewCancel == CHOOSE c \in Cancels : cancel[c].pc = "idle" /\ \A d \in Cancels : d < c => cancel[d].pc # "idle"

----
\* ProcessingPipeline._update_processing_status: the redis record and the
\* AudioFile of uploaded_files are written before its broadcast suspends
update_processing_status(f, s, r, w) ==
    /\ status' = [status EXCEPT ![f] = StatusData(f, s, r, w)]
    /\ uploaded_files' = [uploaded_files EXCEPT ![f] = s]

\* run r writes status s and suspends at p
WriteAndSuspend(r, s, p) ==
    /\ update_processing_status(task[r].file, s, r, "run")
    /\ task' = [task EXCEPT ![r].pc = p, ![r].written = Append(@, Written(s))]

\* process_file, `except Exception`: a stage raised; FAILED is written and
\* the handler suspends in the broadcast of that status and in the write of
\* _cache_error
Fail(r) ==
    /\ update_processing_status(task[r].file, FAILED, r, "run")
    /\ task' = [task EXCEPT ![r].pc = "cache_error", ![r].raised = TRUE,
                            ![r].written = Append(@, Written(FAILED))]

\* process_file, `finally`: the entry of the file is deleted if there is one
Finally(f) == [active_processes EXCEPT ![f] = NoRun]

\* run r is suspended at p and its wait is over (no cancellation pending)
Resumes(r, p) == task[r].pc = p /\ ~task[r].must_cancel

\* ProcessingPipeline.start_processing_task without its active_processes check
start_processing_task_unguarded(f) ==
    /\ startCalls < MaxStarts
    /\ startCalls' = startCalls + 1
    /\ LET r == NewRun IN
        /\ task' = [task EXCEPT ![r] = [IdleTask EXCEPT !.file = f, !.pc = "new"]]
        /\ active_processes' = [active_processes EXCEPT ![f] = r]
        /\ ready' = Append(ready, <<"task", r>>)
    /\ UNCHANGED <<status, uploaded_files, cache, cancel>>
    /\ UNCHANGED <<fmvars, avars, rtvars>>

\* ProcessingPipeline.start_processing_task: no await, so check and set are one step
start_processing_task(f) ==
    /\ startCalls < MaxStarts
    /\ startCalls' = startCalls + 1
    /\ IF active_processes[f] # NoRun
       THEN UNCHANGED <<active_processes, task, ready>>
       ELSE LET r == NewRun IN
            /\ task' = [task EXCEPT ![r] = [IdleTask EXCEPT !.file = f, !.pc = "new"]]
            /\ active_processes' = [active_processes EXCEPT ![f] = r]
            /\ ready' = Append(ready, <<"task", r>>)
    /\ UNCHANGED <<status, uploaded_files, cache, cancel>>
    /\ UNCHANGED <<fmvars, avars, rtvars>>

\* process_file, first step of the task: EXTRACTING_AUDIO is written; the run
\* suspends in the broadcast and, for a video, in the write of the audio path
Begin(r) ==
    /\ ready # <<>> /\ Head(ready) = <<"task", r>>
    /\ Resumes(r, "new")
    /\ ready' = Tail(ready)
    /\ WriteAndSuspend(r, EXTRACTING_AUDIO, "extract")
    /\ UNCHANGED <<active_processes, cache, cancel, startCalls>>
    /\ UNCHANGED <<fmvars, avars, rtvars>>

\* _process_audio ends (for a video with the audio_path entry written) or
\* raises; then TRANSCRIBING is written
Extract(r) ==
    /\ Resumes(r, "extract")
    /\ \/ Fail(r) /\ UNCHANGED cache
       \/ /\ cache' = IF file_type(task[r].file) = "video"
                      THEN [cache EXCEPT ![task[r].file]["audio_path"] = r]
                      ELSE cache
          /\ WriteAndSuspend(r, TRANSCRIBING, "transcribe")
    /\ UNCHANGED <<active_processes, cancel, ready, startCalls>>
    /\ UNCHANGED <<fmvars, avars, rtvars>>

\* _process_transcription ends with the transcript entry written, or raises;
\* then ANALYZING is written
Transcribe(r) ==
    /\ Resumes(r, "transcribe")
    /\ \/ Fail(r) /\ UNCHANGED cache
       \/ /\ cache' = [cache EXCEPT ![task[r].file]["transcript"] = r]
          /\ WriteAndSuspend(r, ANALYZING, "analyze")
    /\ UNCHANGED <<active_processes, cancel, ready, startCalls>>
    /\ UNCHANGED <<fmvars, avars, rtvars>>

\* _process_emotion_analysis: a cached emotions entry is returned as it is;
\* otherwise the emotions are analysed and the emotions entry is written; or
\* the stage raises.  Then _cache_results begins its writes.
Analyze(r) ==
    /\ Resumes(r, "analyze")
    /\ \/ Fail(r) /\ UNCHANGED cache
       \/ /\ cache[task[r].file]["emotions"] # Absent
          /\ task' = [task EXCEPT ![r].pc = "cache_results",
                                  ![r].emotions = cache[task[r].file]["emotions"]]
          /\ UNCHANGED <<status, uploaded_files, cache>>
       \/ /\ cache[task[r].file]["emotions"] = Absent
          /\ cache' = [cache EXCEPT ![task[r].file]["emotions"] = r]
          /\ task' = [task EXCEPT ![r].pc = "cache_results", ![r].emotions = r]
          /\ UNCHANGED <<status, uploaded_files>>
    /\ UNCHANGED <<active_processes, cancel, ready, startCalls>>
    /\ UNCHANGED <<fmvars, avars, rtvars>>

\* the data types _cache_results writes, in the order of its writes
ResultKeys == <<"complete_results", "transcript", "emotions">>

\* what run r puts under data type k
Payload(r, k) == IF k = "emotions" THEN task[r].emotions ELSE r

\* FileManager.cache_processed_data raised: the file was not opened (the old
\* entry stays), or it was opened for writing, which truncates it, and the
\* write raised (no readable entry is left)
FailedWrite(old, truncated) == IF truncated THEN Absent ELSE old

\* the entries of the file of run r after a _cache_results of which the
\* first n writes succeeded and write n + 1, if there is one, raised
cache_results(r, n, truncated) ==
    [k \in DataTypes |->
        LET old == cache[task[r].file][k] IN
        IF \E i \in 1..n : ResultKeys[i] = k THEN Payload(r, k)
        ELSE IF n < Len(ResultKeys) /\ ResultKeys[n + 1] = k THEN FailedWrite(old, truncated)
        ELSE old]

\* a _cache_results after which the run ends without writing COMPLETED
CacheResultsOnly(r) ==
    /\ Resumes(r, "cache_results")
    /\ cache' = [cache EXCEPT ![task[r].file] =
                    [@ EXCEPT !["complete_results"] = r, !["transcript"] = r,
                              !["emotions"] = task[r].emotions]]
    /\ task' = [task EXCEPT ![r].pc = "status_completed"]
    /\ UNCHANGED <<status, uploaded_files>>
    /\ UNCHANGED <<active_processes, cancel, ready, startCalls>>
    /\ UNCHANGED <<fmvars, avars, rtvars>>

\* _cache_results writes complete_results, transcript and emotions, then
\* COMPLETED is written
CacheResults(r) ==
    /\ Resumes(r, "cache_results")
    /\ cache' = [cache EXCEPT ![task[r].file] = cache_results(r, Len(ResultKeys), FALSE)]
    /\ WriteAndSuspend(r, COMPLETED, "status_completed")
    /\ UNCHANGED <<active_processes, cancel, ready, startCalls>>
    /\ UNCHANGED <<fmvars, avars, rtvars>>

\* _cache_results when one of its writes raises: the first n writes are
\* made, the exception is logged and dropped, then COMPLETED is written
CacheResultsRaising(r) ==
    /\ Resumes(r, "cache_results")
    /\ \E n \in 0..(Len(ResultKeys) - 1) : \E t \in BOOLEAN :
          cache' = [cache EXCEPT ![task[r].file] = cache_results(r, n, t)]
    /\ update_processing_status(task[r].file, COMPLETED, r, "run")
    /\ task' = [task EXCEPT ![r].pc = "status_completed",
                            ![r].written = Append(@, Written(COMPLETED)),
                            ![r].swallowed = TRUE]
    /\ UNCHANGED <<active_processes, cancel, ready, startCalls>>
    /\ UNCHANGED <<fmvars, avars, rtvars>>

\* a cleanup whose exception reaches the except handler of process_file
FinishRaising(r) ==
    /\ Resumes(r, "status_completed")
    /\ Fail(r)
    /\ UNCHANGED <<active_processes, cache, cancel, ready, startCalls>>
    /\ UNCHANGED <<fmvars, avars, rtvars>>

\* process_file after the COMPLETED broadcast: cleanup, return, finally
Finish(r) ==
    /\ Resumes(r, "status_completed")
    /\ task' = [task EXCEPT ![r].pc = "done", ![r].outcome = "returned"]
    /\ active_processes' = Finally(task[r].file)
    /\ ready' = ready \o Waiters(r, 1)
    /\ UNCHANGED <<status, uploaded_files, cache, cancel, startCalls>>
    /\ UNCHANGED <<fmvars, avars, rtvars>>

\* a handler that swallows the exception instead of re-raising it
Swallow(r) ==
    /\ Resumes(r, "cache_error")
    /\ cache' = [cache EXCEPT ![task[r].file]["error"] = r]
    /\ status' = [status EXCEPT ![task[r].file] = ErrorData(r)]
    /\ task' = [task EXCEPT ![r].pc = "done", ![r].outcome = "returned"]
    /\ active_processes' = Finally(task[r].file)
    /\ ready' = ready \o Waiters(r, 1)
    /\ UNCHANGED <<uploaded_files, cancel, startCalls>>
    /\ UNCHANGED <<fmvars, avars, rtvars>>

\* a handler that re-raises without recording the error
ReraiseUnrecorded(r) ==
    /\ Resumes(r, "cache_error")
    /\ task' = [task EXCEPT ![r].pc = "done", ![r].outcome = "raised"]
    /\ active_processes' = Finally(task[r].file)
    /\ ready' = ready \o Waiters(r, 1)
    /\ UNCHANGED <<status, uploaded_files, cache, cancel, startCalls>>
    /\ UNCHANGED <<fmvars, avars, rtvars>>

\* except handler after the FAILED broadcast: _cache_error writes the error
\* entry and the error record, then the handler re-raises (line 107) and
\* finally runs: the task ends with the exception
Reraise(r) ==
    /\ Resumes(r, "cache_error")
    /\ cache' = [cache EXCEPT ![task[r].file]["error"] = r]
    /\ status' = [status EXCEPT ![task[r].file] = ErrorData(r)]
    /\ task' = [task EXCEPT ![r].pc = "done", ![r].outcome = "raised"]
    /\ active_processes' = Finally(task[r].file)
    /\ ready' = ready \o Waiters(r, 1)
    /\ UNCHANGED <<uploaded_files, cancel, startCalls>>
    /\ UNCHANGED <<fmvars, avars, rtvars>>

\* except handler when the cache write of _cache_error raises: neither the
\* error entry nor the error record is written (the exception is logged and
\* dropped); then the handler re-raises and finally runs
ReraiseUncached(r) ==
    /\ Resumes(r, "cache_error")
    /\ \E t \in BOOLEAN :
          cache' = [cache EXCEPT ![task[r].file]["error"] = FailedWrite(@, t)]
    /\ task' = [task EXCEPT ![r].pc = "done", ![r].outcome = "raised",
                            ![r].swallowed = TRUE]
    /\ active_processes' = Finally(task[r].file)
    /\ ready' = ready \o Waiters(r, 1)
    /\ UNCHANGED <<status, uploaded_files, cancel, startCalls>>
    /\ UNCHANGED <<fmvars, avars, rtvars>>

\* the cache write a run of file f suspended at p may have handed to the
\* executor thread
PendingWrite(f, p) ==
    CASE p = "extract" /\ file_type(f) = "video" -> "audio_path"
      [] p = "transcribe" -> "transcript"
      [] p = "analyze" /\ cache[f]["emotions"] = Absent -> "emotions"
      [] p = "cache_results" -> "complete_results"
      [] p = "cache_error" -> "error"
      [] OTHER -> "none"

\* Task.cancel() delivered: CancelledError is thrown into process_file at its
\* suspension point.  It is no Exception, so only `finally` runs; a task that
\* never started does not even enter the try block.  A cache write that was
\* handed to the executor thread may still land.
Cancelled(r) ==
    /\ ready # <<>> /\ Head(ready) = <<"task", r>>
    /\ task[r].must_cancel
    /\ task' = [task EXCEPT ![r].pc = "done", ![r].outcome = "cancelled"]
    /\ active_processes' = IF task[r].pc = "new" THEN active_processes
                           ELSE Finally(task[r].file)
    /\ \/ UNCHANGED cache
       \/ /\ PendingWrite(task[r].file, task[r].pc) # "none"
          /\ cache' = [cache EXCEPT ![task[r].file][PendingWrite(task[r].file, task[r].pc)] = r]
    /\ ready' = Tail(ready) \o Waiters(r, 1)
    /\ UNCHANGED <<status, uploaded_files, cancel, startCalls>>
    /\ UNCHANGED <<fmvars, avars, rtvars>>

----
\* cancel_processing up to `await task`.  Awaiting a task that is already
\* done (a task cancelled before its first step stays registered) does not
\* suspend: CancelledError is raised at once and the call goes on to delete
\* the entry and to write FAILED.
cancel_processing(f) ==
    LET r == active_processes[f] IN
    IF r = NoRun
    THEN UNCHANGED vars
    ELSE /\ \E c \in Cancels : cancel[c].pc = "idle"
         /\ LET c == NewCancel IN
            IF task[r].pc = "done"
            THEN /\ cancel' = [cancel EXCEPT ![c] = [file |-> f, task |-> r,
                                                     pc |-> "status_failed", result |-> "none"]]
                 /\ active_processes' = [active_processes EXCEPT ![f] = NoRun]
                 /\ update_processing_status(f, FAILED, r, "cancel")
                 /\ UNCHANGED <<task, ready>>
            ELSE /\ cancel' = [cancel EXCEPT ![c] = [file |-> f, task |-> r,
                                                     pc |-> "await", result |-> "none"]]
                 /\ task' = [task EXCEPT ![r].must_cancel = TRUE]
                 /\ ready' = IF Scheduled(<<"task", r>>) THEN ready
                             ELSE Append(ready, <<"task", r>>)
                 /\ UNCHANGED <<active_processes, status, uploaded_files>>
         /\ UNCHANGED <<cache, startCalls>>
         /\ UNCHANGED <<fmvars, avars, rtvars>>

\* cancel_processing after `await task`: `del self.active_processes[file_id]`
\* raises KeyError when the entry is gone (caught: return False); otherwise
\* the entry that is there now is deleted and FAILED is written
CancelResume(c) ==
    /\ ready # <<>> /\ Head(ready) = <<"cancel", c>>
    /\ cancel[c].pc = "await"
    /\ ready' = Tail(ready)
    /\ IF active_processes[cancel[c].file] = NoRun
       THEN /\ cancel' = [cancel EXCEPT ![c].pc = "ret", ![c].result = "false"]
            /\ UNCHANGED <<active_processes, status, uploaded_files>>
       ELSE /\ cancel' = [cancel EXCEPT ![c].pc = "status_failed"]
            /\ active_processes' = [active_processes EXCEPT ![cancel[c].file] = NoRun]
            /\ update_processing_status(cancel[c].file, FAILED, cancel[c].task, "cancel")
    /\ UNCHANGED <<task, cache, startCalls>>
    /\ UNCHANGED <<fmvars, avars, rtvars>>

\* cancel_processing after the FAILED broadcast: return True
CancelReturn(c) ==
    /\ cancel[c].pc = "status_failed"
    /\ cancel' = [cancel EXCEPT ![c].pc = "ret", ![c].result = "true"]
    /\ UNCHANGED <<active_processes, task, status, uploaded_files, cache, ready,
                   startCalls>>
    /\ UNCHANGED <<fmvars, avars, rtvars>>

----
\* one uninterrupted segment of the task of run r
TaskStep(r) ==
    \/ Begin(r)
    \/ Extract(r)
    \/ Transcribe(r)
    \/ Analyze(r)
    \/ CacheResults(r)
    \/ Finish(r)
    \/ Reraise(r)

Next ==
    \/ \E f \in Files : start_processing_task(f)
    \/ \E f \in Files : cancel_processing(f)
    \/ \E r \in Runs : Begin(r)
    \/ \E r \in Runs : Extract(r)
    \/ \E r \in Runs : Transcribe(r)
    \/ \E r \in Runs : Analyze(r)
    \/ \E r \in Runs : CacheResults(r)
    \/ \E r \in Runs : Finish(r)
    \/ \E r \in Runs : Reraise(r)
    \/ \E r \in Runs : Cancelled(r)
    \/ \E c \in Cancels : CancelResume(c)
    \/ \E c \in Cancels : CancelReturn(c)

Spec == Init /\ [][Next]_vars

\* the scheduling asyncio guarantees: the loop runs every scheduled callback
\* and every wait of a task ends.  Without calls of cancel_processing.
LiveNext ==
    \/ \E f \in Files : start_processing_task(f)
    \/ \E r \in Runs : Begin(r)
    \/ \E r \in Runs : Extract(r)
    \/ \E r \in Runs : Transcribe(r)
    \/ \E r \in Runs : Analyze(r)
    \/ \E r \in Runs : CacheResults(r)
    \/ \E r \in Runs : Finish(r)
    \/ \E r \in Runs : Reraise(r)

LiveSpec == Init /\ [][LiveNext]_vars /\ \A r \in Runs : WF_vars(TaskStep(r))

\* the pipeline on a cache directory whose writes can raise (disk full, no
\* permission): the writes of _cache_results and of _cache_error are inside
\* try blocks that log the exception and go on.  Without calls of
\* cancel_processing.
FaultNext ==
    \/ \E f \in Files : start_processing_task(f)
    \/ \E r \in Runs : Begin(r)
    \/ \E r \in Runs : Extract(r)
    \/ \E r \in Runs : Transcribe(r)
    \/ \E r \in Runs : Analyze(r)
    \/ \E r \in Runs : CacheResults(r)
    \/ \E r \in Runs : CacheResultsRaising(r)
    \/ \E r \in Runs : Finish(r)
    \/ \E r \in Runs : Reraise(r)
    \/ \E r \in Runs : ReraiseUncached(r)

FaultSpec == Init /\ [][FaultNext]_vars

----
(***************************************************************************)
(* The cache of services/file_manager.py.  cache_processed_data and        *)
(* get_cached_data go through aiofiles: open, write, read and close each   *)
(* run in the executor and the calling coroutine waits, so other           *)
(* coroutines run between the open of a cache file and the write of its    *)
(* text, and between the read of a text and the check of its age.          *)
(***************************************************************************)

\* json.dumps(data_with_meta, indent=2, default=str): a value json cannot
\* encode is replaced by its str()
json_dumps(data, cached_at, inode) ==
    [state |-> "json", val |-> data.val, type |-> "str", cached_at |-> cached_at,
     inode |-> inode]

\* cached_data["data"] of json.loads(content)
json_loads(text) == [val |-> text.val, type |-> text.type]

\* the payload whose text has the value v
PayloadOf(v) == CHOOSE data \in Payloads : data.val = v

\* the cache file after open(cache_path, 'w') by call i: created if there is
\* none, emptied if there is one
Truncated(old, i) ==
    [old EXCEPT !.state = "torn", !.inode = IF old.state = "none" THEN i ELSE @]

\* an expiry test that lets a text live one instant too long
expired_late(cached_at) == now - cached_at > max_file_age

\* `datetime.now() - cached_at < self.max_file_age` is false
expired(cached_at) == now - cached_at >= max_file_age

NewPut == CHOOSE i \in Puts : put[i].pc = "idle" /\ \A h \in Puts : h < i => put[h].pc # "idle"
NewGet == CHOOSE j \in Gets : get[j].pc = "idle" /\ \A h \in Gets : h < j => get[h].pc # "idle"

\* a call of cache_processed_data that has ended
EndedPut(pc) == [IdlePut EXCEPT !.pc = pc]

\* cache_processed_data up to the end of aiofiles.open: cached_at is taken,
\* then the file is opened for writing, or the open raises
cache_processed_data(n, data) ==
    /\ \E i \in Puts : put[i].pc = "idle"
    /\ LET i == NewPut IN
       \/ /\ put' = [put EXCEPT ![i] = [name |-> n, pc |-> "write", data |-> data,
                                       cached_at |-> now,
                                       inode |-> Truncated(cache_dir[n], i).inode]]
          /\ cache_dir' = [cache_dir EXCEPT ![n] = Truncated(@, i)]
       \/ /\ put' = [put EXCEPT ![i] = EndedPut("raised")]
          /\ UNCHANGED cache_dir
    /\ UNCHANGED <<now, get, store>>
    /\ UNCHANGED <<pvars, avars, rtvars>>

\* the file call i has open is still the file of its name
Linked(i) == /\ cache_dir[put[i].name].state # "none"
             /\ cache_dir[put[i].name].inode = put[i].inode

\* cache_processed_data, f.write and the close: the text is written from
\* offset 0 into the file that was opened (a file unlinked since then is no
\* longer the file of the name; over a text another call wrote since then,
\* the tail of a longer text stays) and the path is returned
PutWrite(i) ==
    /\ put[i].pc = "write"
    /\ put' = [put EXCEPT ![i] = EndedPut("done")]
    /\ LET n == put[i].name IN
       IF ~Linked(i) THEN UNCHANGED cache_dir
       ELSE \/ cache_dir' = [cache_dir EXCEPT
                               ![n] = json_dumps(put[i].data, put[i].cached_at, put[i].inode)]
            \/ /\ cache_dir[n].state = "json"
               /\ cache_dir' = [cache_dir EXCEPT ![n] = Truncated(@, i)]
    /\ UNCHANGED <<now, get, store>>
    /\ UNCHANGED <<pvars, avars, rtvars>>

\* cache_processed_data, f.write or the close raises (disk full): the
\* exception is logged and raised again, the file stays as it is
PutRaises(i) ==
    /\ put[i].pc = "write"
    /\ put' = [put EXCEPT ![i] = EndedPut("raised")]
    /\ UNCHANGED <<now, cache_dir, get, store>>
    /\ UNCHANGED <<pvars, avars, rtvars>>

\* a call of cache_processed_data has the file of name n open
Writing(n) == \E i \in Puts : put[i].pc = "write" /\ put[i].name = n /\ Linked(i)

\* get_cached_data up to the end of f.read: no file, no data; else the text
\* of the file is read
get_cached_data(n) ==
    /\ \E j \in Gets : get[j].pc = "idle"
    /\ LET j == NewGet IN
       get' = [get EXCEPT ![j] =
                 IF cache_dir[n].state = "none"
                 THEN [IdleGet EXCEPT !.name = n, !.pc = "done"]
                 ELSE [name |-> n, pc |-> "read", seen |-> cache_dir[n],
                       racing |-> Writing(n), result |-> None]]
    /\ UNCHANGED <<now, cache_dir, put, store>>
    /\ UNCHANGED <<pvars, avars, rtvars>>

\* get_cached_data from json.loads on, for the text `seen`, without its try
\* block
get_cached_data_unguarded(seen) ==
    IF seen.state = "torn" THEN [result |-> Raised, unlink |-> FALSE]
    ELSE IF ~expired(seen.cached_at) THEN [result |-> json_loads(seen), unlink |-> FALSE]
    ELSE [result |-> None, unlink |-> TRUE]

\* get_cached_data from json.loads on, for the text `seen`: a text that is
\* no JSON document raises inside the try block (logged, None); a text
\* younger than max_file_age gives its data; else the file is unlinked
get_cached_data_result(seen) ==
    IF seen.state = "torn" THEN [result |-> None, unlink |-> FALSE]
    ELSE IF ~expired(seen.cached_at) THEN [result |-> json_loads(seen), unlink |-> FALSE]
    ELSE [result |-> None, unlink |-> TRUE]

\* get_cached_data after the read: cache_path.unlink() removes the file
\* that has the name now (a missing file raises inside the try block).  Of
\* the text a call that returned has read, only its state is kept.
GetFinish(j) ==
    /\ get[j].pc = "read"
    /\ LET out == get_cached_data_result(get[j].seen) IN
       /\ get' = [get EXCEPT ![j].pc = "done", ![j].result = out.result,
                             ![j].seen = [NoFile EXCEPT !.state = get[j].seen.state],
                             ![j].racing = FALSE]
       /\ cache_dir' = IF out.unlink THEN [cache_dir EXCEPT ![get[j].name] = NoFile]
                       ELSE cache_dir
    /\ UNCHANGED <<now, put, store>>
    /\ UNCHANGED <<pvars, avars, rtvars>>

\* time passes
Tick ==
    /\ now < MaxTime
    /\ now' = now + 1
    /\ UNCHANGED <<cache_dir, put, get, store>>
    /\ UNCHANGED <<pvars, avars, rtvars>>

CacheNext ==
    \/ \E n \in HotNames : \E data \in Payloads : cache_processed_data(n, data)
    \/ \E i \in Puts : PutWrite(i)
    \/ \E i \in Puts : PutRaises(i)
    \/ \E n \in HotNames : get_cached_data(n)
    \/ \E j \in Gets : GetFinish(j)
    \/ Tick

CacheSpec == Init /\ [][CacheNext]_vars

----
(***************************************************************************)
(* The stored files of services/file_manager.py, the sweep                 *)
(* cleanup_expired_files and delete_uploaded_file of api/upload.py.  The   *)
(* sweep and the deletion call no function that suspends: each runs from   *)
(* its first line to its return while nothing else runs.                   *)
(***************************************************************************)

\* there is a file of this name
Exists(file) == file.state # "none"

\* st_size of a cache file, of file_metadata.json and of an uploaded file
Size(n) == IF n[2] = "transcript" THEN 1 ELSE 2
MetadataSize == 1
FileSize == 2

\* the data types of cache_patterns in _remove_file_and_cache
cache_patterns == {"transcript", "emotions", "features"}

RECURSIVE SumSize(_)
SumSize(names) ==
    IF names = {} THEN 0
    ELSE LET n == CHOOSE x \in names : TRUE IN Size(n) + SumSize(names \ {n})

\* the metadata store_uploaded_file writes at time t: expires_at is
\* t + max_file_age and the file is at stored_path
Uploaded(t) == [known |-> TRUE, expires_at |-> t + max_file_age, on_disk |-> TRUE]

\* the cache file cache_processed_data has written at time t
Cached(t) == json_dumps(PayloadOf("a"), t, 0)

\* The file manager some time after start-up, at the time MaxTime: any of
\* the files was uploaded at some time (upload_file puts it into
\* uploaded_files and store_uploaded_file writes file_metadata.json), any
\* cache file was written at some time (for an uploaded file, after its
\* upload), and file_metadata.json is there unless a sweep has removed it.
StoreInit ==
    /\ InitPipeline
    /\ put = [i \in Puts |-> IdlePut]
    /\ get = [j \in Gets |-> IdleGet]
    /\ now = MaxTime
    /\ InitAnalyzer
    /\ InitRealtime
    /\ \E meta \in [StoredIds -> {NoMeta} \cup {Uploaded(t) : t \in 0..MaxTime}] :
       \E mf \in BOOLEAN :
          /\ store = [InitStore EXCEPT !.file_metadata = meta,
                                       !.metadata_file = mf,
                                       !.memory = {id \in StoredIds : meta[id].known}]
          /\ cache_dir \in [CacheNames -> {NoFile} \cup {Cached(t) : t \in 0..MaxTime}]
          /\ \A n \in CacheNames :
                (Exists(cache_dir[n]) /\ meta[n[1]].known)
                => cache_dir[n].cached_at + max_file_age >= meta[n[1]].expires_at

\* the files and the metadata cleanup_expired_files works on, with its stats
Disk == [cache_dir |-> cache_dir, file_metadata |-> store.file_metadata,
         metadata_file |-> store.metadata_file, stats |-> NoStats]

\* the cache files the sweep removes, counted into the stats
Unlinked(D, gone) ==
    [D EXCEPT !.cache_dir = [n \in CacheNames |-> IF n \in gone THEN NoFile ELSE D.cache_dir[n]],
              !.stats.cache_files_removed = @ + Cardinality(gone),
              !.stats.bytes_freed = @ + SumSize(gone)]

\* FileManager._remove_file_and_cache: the stored file, the cache files of
\* cache_patterns and the metadata are removed and file_metadata.json is
\* written
remove_file_and_cache(D, id) ==
    LET m == D.file_metadata[id]
        D1 == IF m.known /\ m.on_disk
              THEN [D EXCEPT !.stats.files_removed = @ + 1, !.stats.bytes_freed = @ + FileSize]
              ELSE D
        gone == {n \in CacheNames : n[1] = id /\ n[2] \in cache_patterns /\ Exists(D.cache_dir[n])}
    IN  [Unlinked(D1, gone) EXCEPT !.file_metadata[id] = NoMeta, !.metadata_file = TRUE]

\* cleanup_expired_files, lines 251-270: the ids with current_time > expires_at
expired_file_ids(D) ==
    {id \in StoredIds : D.file_metadata[id].known /\ now > D.file_metadata[id].expires_at}

RECURSIVE RemoveExpired(_, _)
RemoveExpired(D, ids) ==
    IF ids = {} THEN D
    ELSE LET id == CHOOSE x \in ids : TRUE IN
         RemoveExpired(remove_file_and_cache(D, id), ids \ {id})

\* a _cleanup_orphaned_cache_files that spares the files of unknown ids
keep_orphaned_cache_files(D) == D

\* FileManager._cleanup_orphaned_cache_files: every *.json of the cache
\* directory whose name up to the first '_' is no key of file_metadata is
\* removed; file_metadata.json is such a file
cleanup_orphaned_cache_files(D) ==
    LET gone == {n \in CacheNames : Exists(D.cache_dir[n]) /\ ~D.file_metadata[n[1]].known}
        D1 == Unlinked(D, gone)
    IN  IF D.metadata_file
        THEN [D1 EXCEPT !.metadata_file = FALSE,
                        !.stats.cache_files_removed = @ + 1,
                        !.stats.bytes_freed = @ + MetadataSize]
        ELSE D1

\* the files of the cache directory and their total size
CacheFiles(D) == {n \in CacheNames : Exists(D.cache_dir[n])}
TotalSize(D) == SumSize(CacheFiles(D)) + IF D.metadata_file THEN MetadataSize ELSE 0

\* the paths of the cache files in the order of the strings
PathOrder == << <<"f1", "complete_results">>, <<"f1", "transcript">>,
               <<"f2", "complete_results">>, <<"f2", "transcript">> >>
Rank(n) == CHOOSE k \in 1..Len(PathOrder) : PathOrder[k] = n

\* (mtime, path) of n is before that of m; a text is written at its cached_at
Before(D, n, m) ==
    \/ D.cache_dir[n].cached_at < D.cache_dir[m].cached_at
    \/ D.cache_dir[n].cached_at = D.cache_dir[m].cached_at /\ Rank(n) <= Rank(m)

\* _enforce_cache_size_limit, lines 363-376: the files are removed in the
\* order of (mtime, path) until the total size is within the limit
RECURSIVE RemoveOldest(_)
RemoveOldest(D) ==
    IF TotalSize(D) <= max_cache_size \/ CacheFiles(D) = {} THEN D
    ELSE LET n == CHOOSE x \in CacheFiles(D) : \A y \in CacheFiles(D) : Before(D, x, y) IN
         RemoveOldest(Unlinked(D, {n}))

\* FileManager._enforce_cache_size_limit
enforce_cache_size_limit(D) ==
    IF TotalSize(D) <= max_cache_size THEN D ELSE RemoveOldest(D)

\* FileManager.cleanup_expired_files
cleanup_expired_files ==
    /\ store.sweeps < MaxSweeps
    /\ LET D == enforce_cache_size_limit(
                    cleanup_orphaned_cache_files(
                        RemoveExpired(Disk, expired_file_ids(Disk)))) IN
       /\ cache_dir' = D.cache_dir
       /\ store' = [store EXCEPT !.file_metadata = D.file_metadata,
                                 !.metadata_file = D.metadata_file,
                                 !.stats = D.stats,
                                 !.sweeps = @ + 1]
    /\ UNCHANGED <<now, put, get>>
    /\ UNCHANGED <<pvars, avars, rtvars>>

\* delete_uploaded_file: the entry of uploaded_files is deleted;
\* get_file_path gives the path of a stored file (and drops the metadata of
\* a file that is not there) and the file is removed; then
\* file_manager.remove_file_metadata, which FileManager does not have,
\* raises AttributeError and the handler answers 500.  clear_cached_data is
\* not reached.
delete_uploaded_file(id) ==
    /\ store.deletes < MaxDeletes
    /\ LET m == store.file_metadata[id] IN
       store' = [store EXCEPT
                    !.memory = @ \ {id},
                    !.file_metadata[id] = IF ~m.known THEN m
                                          ELSE IF m.on_disk THEN [m EXCEPT !.on_disk = FALSE]
                                          ELSE NoMeta,
                    !.metadata_file = IF m.known /\ ~m.on_disk THEN TRUE ELSE @,
                    !.deletes = @ + 1,
                    !.answer = [file_id |-> id, status_code |-> 500, deleted_items |-> {}]]
    /\ UNCHANGED <<now, cache_dir, put, get>>
    /\ UNCHANGED <<pvars, avars, rtvars>>

StoreNext ==
    \/ cleanup_expired_files
    \/ \E id \in StoredIds : delete_uploaded_file(id)

StoreSpec == StoreInit /\ [][StoreNext]_vars

----
(***************************************************************************)
(* EmotionAnalyzer._fuse_emotions of services/emotion_analyzer.py, a pure  *)
(* function of two predictions.  The confidences, floats in [0,1], are     *)
(* integers in units of 1/Scale; on the confidences of Confidences the     *)
(* products with 1.2 and 0.8 are integers too.                             *)
(***************************************************************************)

\* min of two confidences
Min(a, b) == IF a <= b THEN a ELSE b

\* an agreement that leaves the average as it is
agreed_unboosted(text_conf, audio_conf) ==
    Min(Scale, (text_conf + audio_conf) \div 2)

\* line 376: min(1.0, (text_conf + audio_conf) / 2 * 1.2)
agreed(text_conf, audio_conf) ==
    Min(Scale, ((text_conf + audio_conf) * 12) \div 20)

\* a disagreement that leaves the higher confidence as it is, plus a bonus
disagreed_rewarded(text_emotion, text_conf, audio_emotion, audio_conf) ==
    IF text_conf > audio_conf
    THEN [emotion |-> text_emotion, confidence |-> Min(Scale, (text_conf * 11) \div 10)]
    ELSE [emotion |-> audio_emotion, confidence |-> Min(Scale, (audio_conf * 11) \div 10)]

\* a choice that gives a tie to the text
disagreed_text_on_tie(text_emotion, text_conf, audio_emotion, audio_conf) ==
    IF text_conf >= audio_conf
    THEN [emotion |-> text_emotion, confidence |-> (text_conf * 8) \div 10]
    ELSE [emotion |-> audio_emotion, confidence |-> (audio_conf * 8) \div 10]

\* a choice that leaves the confidence of a tie as it is
disagreed_tie_unreduced(text_emotion, text_conf, audio_emotion, audio_conf) ==
    IF text_conf > audio_conf
    THEN [emotion |-> text_emotion, confidence |-> (text_conf * 8) \div 10]
    ELSE IF text_conf = audio_conf
    THEN [emotion |-> audio_emotion, confidence |-> audio_conf]
    ELSE [emotion |-> audio_emotion, confidence |-> (audio_conf * 8) \div 10]

\* lines 379-385: the prediction of the higher confidence, reduced to 0.8 of
\* it; the audio prediction unless text_conf > audio_conf
disagreed(text_emotion, text_conf, audio_emotion, audio_conf) ==
    IF text_conf > audio_conf
    THEN [emotion |-> text_emotion, confidence |-> (text_conf * 8) \div 10]
    ELSE [emotion |-> audio_emotion, confidence |-> (audio_conf * 8) \div 10]

\* EmotionAnalyzer._fuse_emotions
fuse_emotions(text_emotion, text_conf, audio_emotion, audio_conf) ==
    LET total_weight == text_conf + audio_conf IN
    IF total_weight = 0
    THEN [emotion |-> "neutral", confidence |-> Scale \div 2]
    ELSE IF text_emotion = audio_emotion
    THEN [emotion |-> text_emotion, confidence |-> agreed(text_conf, audio_conf)]
    ELSE disagreed(text_emotion, text_conf, audio_emotion, audio_conf)

\* a segment with its textual and its tonal prediction, before the fusion
FuseInit ==
    /\ InitPipeline
    /\ InitFileManager
    /\ InitRealtime
    /\ analysis = NoAnalysis
    /\ transcript = NoTranscript
    /\ \E te \in Emotions, ae \in Emotions, tc \in Confidences, ac \in Confidences :
          segment = [pc |-> "predicted", text_emotion |-> te, text_conf |-> tc,
                     audio_emotion |-> ae, audio_conf |-> ac, result |-> NoFusion]

\* _analyze_segment, lines 205-209: the call of _fuse_emotions
analyze_segment ==
    /\ segment.pc = "predicted"
    /\ segment' = [segment EXCEPT
                      !.pc = "fused",
                      !.result = fuse_emotions(segment.text_emotion, segment.text_conf,
                                               segment.audio_emotion, segment.audio_conf)]
    /\ UNCHANGED <<pvars, fmvars, analysis, transcript, rtvars>>

FuseNext == analyze_segment

FuseSpec == FuseInit /\ [][FuseNext]_vars

----
(***************************************************************************)
(* EmotionAnalysis of models/emotion_analysis.py and                       *)
(* EmotionAnalyzer._calculate_overall_emotion: pure functions of a list of *)
(* segments.  Times are integers; a confidence is an integer in units of   *)
(* 1/Scale, so a weight duration * confidence is an integer too.           *)
(***************************************************************************)

\* EmotionSegment, the fields the aggregation and the lookup read
EmotionSegment(s, e, emotion, confidence) ==
    [start_time |-> s, end_time |-> e, combined_emotion |-> emotion,
     combined_confidence |-> confidence]

\* EmotionSegment.duration and the weight of lines 397-398 / 124-126
duration(seg) == seg.end_time - seg.start_time
weight(seg) == duration(seg) * seg.combined_confidence

\* the keys of emotion_scores in the order of their insertion
RECURSIVE Keys(_)
Keys(segs) ==
    IF segs = <<>> THEN <<>>
    ELSE LET k == Keys(SubSeq(segs, 1, Len(segs) - 1))
             e == segs[Len(segs)].combined_emotion
         IN  IF \E i \in 1..Len(k) : k[i] = e THEN k ELSE Append(k, e)

\* emotion_scores[e] after the loop over the segments
RECURSIVE Score(_, _)
Score(segs, e) ==
    IF segs = <<>> THEN 0
    ELSE Score(Tail(segs), e)
         + IF Head(segs).combined_emotion = e THEN weight(Head(segs)) ELSE 0

\* total_weight after the loop
RECURSIVE TotalWeight(_)
TotalWeight(segs) ==
    IF segs = <<>> THEN 0 ELSE weight(Head(segs)) + TotalWeight(Tail(segs))

\* max(items, key=...): the first of the items with the greatest value
FirstMax(keys, val) ==
    keys[CHOOSE i \in 1..Len(keys) :
            /\ \A j \in 1..Len(keys) : val[keys[j]] <= val[keys[i]]
            /\ \A j \in 1..(i - 1) : val[keys[j]] < val[keys[i]]]

\* EmotionAnalyzer._calculate_overall_emotion: the scores are divided by
\* total_weight (a quotient of the precision of the representation) before
\* the greatest is looked for
calculate_overall_emotion(segs) ==
    IF segs = <<>> THEN [emotion |-> "neutral", confidence |-> Scale \div 2]
    ELSE IF TotalWeight(segs) = 0 THEN [emotion |-> "neutral", confidence |-> Scale \div 2]
    ELSE LET emotion_scores == [e \in Emotions |->
                                    (Score(segs, e) * Scale) \div TotalWeight(segs)]
             dominant_emotion == FirstMax(Keys(segs), emotion_scores)
         IN  [emotion |-> dominant_emotion, confidence |-> emotion_scores[dominant_emotion]]

\* EmotionAnalysis.get_dominant_emotion
get_dominant_emotion(segs) ==
    IF segs = <<>> THEN "neutral"
    ELSE FirstMax(Keys(segs), [e \in Emotions |-> Score(segs, e)])

\* a validator that looks at the start times only
validate_start_times_only(v) ==
    IF \E i \in 2..Len(v) : v[i].start_time < v[i - 1].start_time THEN "order" ELSE "ok"

\* EmotionAnalysis.validate_segment_timing_order: the ValueError of the
\* first pair of neighbours that is out of order or overlaps, or "ok"
validate_segment_timing_order(v) ==
    LET bad == {i \in 2..Len(v) : \/ v[i].start_time < v[i - 1].start_time
                                  \/ v[i].start_time < v[i - 1].end_time}
    IN  IF Len(v) < 2 \/ bad = {} THEN "ok"
        ELSE LET i == CHOOSE x \in bad : \A y \in bad : x <= y
             IN  IF v[i].start_time < v[i - 1].start_time THEN "order" ELSE "overlap"

\* a lookup that leaves the end of a segment to its successor
get_emotion_before_end(segs, time_seconds) ==
    LET hit == {i \in 1..Len(segs) : /\ segs[i].start_time <= time_seconds
                                     /\ time_seconds < segs[i].end_time}
    IN  IF hit = {} THEN 0 ELSE CHOOSE i \in hit : \A j \in hit : i <= j

\* EmotionAnalysis.get_emotion_at_time: the index of the segment returned,
\* 0 for None
get_emotion_at_time(segs, time_seconds) ==
    LET hit == {i \in 1..Len(segs) : /\ segs[i].start_time <= time_seconds
                                     /\ time_seconds <= segs[i].end_time}
    IN  IF hit = {} THEN 0 ELSE CHOOSE i \in hit : \A j \in hit : i <= j

\* EmotionAnalysis(...): the validators of the fields run, a ValueError
\* rejects the construction, and the list is taken as it is given
EmotionAnalysisOf(a, overall) ==
    LET e == validate_segment_timing_order(a.segments) IN
    IF e = "ok" THEN [a EXCEPT !.pc = "accepted", !.overall = overall]
    ELSE [a EXCEPT !.pc = "rejected", !.error = e]

\* the emotions, confidences and durations of the segments of DominantInit
SegmentEmotions == {"joy", "anger", "neutral"}
SegmentConfidences == {0, Scale \div 2, Scale}
Durations == 1..2
Windows == Durations \X SegmentEmotions \X SegmentConfidences

\* start_time of the i-th of the segments that follow one another
RECURSIVE StartOf(_, _)
StartOf(q, i) == IF i = 1 THEN 0 ELSE StartOf(q, i - 1) + q[i - 1][1]

\* analyze_emotions after its loop over the segments: a list of segments
\* that follow one another, each with its combined prediction
DominantInit ==
    /\ InitPipeline
    /\ InitFileManager
    /\ InitRealtime
    /\ segment = NoSegment
    /\ transcript = NoTranscript
    /\ \E n \in 1..MaxSegments : \E q \in [1..n -> Windows] :
          analysis = [NoAnalysis EXCEPT
                        !.pc = "segments",
                        !.segments = [i \in 1..n |->
                            EmotionSegment(StartOf(q, i), StartOf(q, i) + q[i][1],
                                           q[i][2], q[i][3])]]

\* EmotionAnalyzer.analyze_emotions, lines 130-139: the overall emotion is
\* calculated and the EmotionAnalysis is constructed
analyze_emotions ==
    /\ analysis.pc = "segments"
    /\ analysis' = EmotionAnalysisOf(analysis, calculate_overall_emotion(analysis.segments))
    /\ UNCHANGED <<pvars, fmvars, segment, transcript, rtvars>>

\* a call of get_dominant_emotion of an EmotionAnalysis
GetDominantEmotion ==
    /\ analysis.pc = "accepted"
    /\ analysis' = [analysis EXCEPT !.pc = "dominant",
                                    !.dominant = get_dominant_emotion(analysis.segments)]
    /\ UNCHANGED <<pvars, fmvars, segment, transcript, rtvars>>

DominantNext == analyze_emotions \/ GetDominantEmotion

DominantSpec == DominantInit /\ [][DominantNext]_vars

\* the segments a caller may pass: each an EmotionSegment (0 <= start_time
\* < end_time), in any order
Intervals == {se \in (0..MaxEnd) \X (0..MaxEnd) : se[1] < se[2]}

\* a cached emotions entry, before EmotionAnalysis(**cached_emotions)
AnalysisInit ==
    /\ InitPipeline
    /\ InitFileManager
    /\ InitRealtime
    /\ segment = NoSegment
    /\ transcript = NoTranscript
    /\ \E n \in 0..MaxSegments : \E q \in [1..n -> Intervals] :
          analysis = [NoAnalysis EXCEPT
                        !.pc = "cached",
                        !.overall = [emotion |-> "neutral", confidence |-> Scale],
                        !.segments = [i \in 1..n |->
                            EmotionSegment(q[i][1], q[i][2], "neutral", Scale)]]

\* EmotionAnalysis(**cached_emotions)
EmotionAnalysisNew ==
    /\ analysis.pc = "cached"
    /\ analysis' = EmotionAnalysisOf(analysis, analysis.overall)
    /\ UNCHANGED <<pvars, fmvars, segment, transcript, rtvars>>

\* a call of get_emotion_at_time of an EmotionAnalysis
GetEmotionAtTime(t) ==
    /\ analysis.pc = "accepted"
    /\ analysis' = [analysis EXCEPT
                      !.pc = "looked",
                      !.time_seconds = t,
                      !.found = get_emotion_at_time(analysis.segments, t)]
    /\ UNCHANGED <<pvars, fmvars, segment, transcript, rtvars>>

AnalysisNext ==
    \/ EmotionAnalysisNew
    \/ \E t \in 0..MaxEnd : GetEmotionAtTime(t)

AnalysisSpec == AnalysisInit /\ [][AnalysisNext]_vars

----
(***************************************************************************)
(* The transcript update of api/websocket.py, send_real_transcript_update, *)
(* as a function of the words of the cached Transcript and of              *)
(* current_time.                                                           *)
(***************************************************************************)

\* WordSegment: 0 <= start_time < end_time
WordSegment(s, e) == [start_time |-> s, end_time |-> e]

\* Transcript.validate_word_timing_order: the start times do not decrease
validate_word_timing_order(v) ==
    \A i \in 2..Len(v) : ~(v[i].start_time < v[i - 1].start_time)

\* lines 367-381: the index (from 0) of the word reported, -1 for "...".
\* The loop stops at the first word that contains current_time or starts
\* after it
current_word_index(words, current_time) ==
    LET stop == {i \in 1..Len(words) :
                    \/ /\ current_time >= words[i].start_time
                       /\ current_time <= words[i].end_time
                    \/ current_time < words[i].start_time}
    IN  IF stop = {} THEN -1
        ELSE LET i == CHOOSE x \in stop : \A y \in stop : x <= y IN
             IF current_time >= words[i].start_time /\ current_time <= words[i].end_time
             THEN i - 1
             ELSE IF i > 1 THEN i - 2 ELSE -1

\* a cached transcript the Transcript model accepts, and a current_time
TranscriptInit ==
    /\ InitPipeline
    /\ InitFileManager
    /\ InitRealtime
    /\ segment = NoSegment
    /\ analysis = NoAnalysis
    /\ \E n \in 0..MaxWords : \E q \in [1..n -> Intervals] :
          LET words == [i \in 1..n |-> WordSegment(q[i][1], q[i][2])] IN
          /\ validate_word_timing_order(words)
          /\ transcript = [NoTranscript EXCEPT !.pc = "cached", !.words = words]

\* send_real_transcript_update, lines 363-390: the message for current_time
send_real_transcript_update(t) ==
    /\ transcript.pc = "cached"
    /\ transcript' = [transcript EXCEPT
                        !.pc = "sent",
                        !.current_time = t,
                        !.word_index = current_word_index(transcript.words, t)]
    /\ UNCHANGED <<pvars, fmvars, segment, analysis, rtvars>>

TranscriptNext == \E t \in 0..(MaxEnd + 1) : send_real_transcript_update(t)

TranscriptSpec == TranscriptInit /\ [][TranscriptNext]_vars

----
(***************************************************************************)
(* The playback websockets of api/websocket.py: websocket_playback_endpoint *)
(* with ConnectionManager and the PlaybackManager of                       *)
(* models/playback_state.py.  Each connection has a task running the       *)
(* handler; the tasks share playback_manager_ws.active_connections and     *)
(* playback_manager.sessions and are suspended at receive_text and at      *)
(* every send_text.                                                        *)
(***************************************************************************)

\* the segments of the cached emotions of a file (fa: one segment [0, 1])
CachedEmotions(f) ==
    IF f = "fa" THEN <<EmotionSegment(0, 1, "joy", Scale)>> ELSE <<>>

\* a message of a broadcast; source tells the cached data from the mock data
Message(type, t, source) == [type |-> type, current_time |-> t, source |-> source]

\* PlaybackSession(file_id): lines 190-198
PlaybackSession(f) ==
    [file_id |-> f, current_time |-> 0, is_playing |-> FALSE, is_paused |-> FALSE]

\* list.remove(c)
Remove(list, c) == SelectSeq(list, LAMBDA x : x # c)

\* c in list
In(list, c) == \E i \in 1..Len(list) : list[i] = c

\* ConnectionManager.connect after websocket.accept()
connect(A, c, f) ==
    IF A[f].present
    THEN [A EXCEPT ![f].list = Append(@, c)]
    ELSE [A EXCEPT ![f] = [present |-> TRUE, list_id |-> @.list_id + 1, list |-> <<c>>]]

\* ConnectionManager.disconnect
disconnect(A, c, f) ==
    IF ~A[f].present THEN A
    ELSE LET l == Remove(A[f].list, c) IN
         IF l = <<>>
         THEN [A EXCEPT ![f] = [present |-> FALSE, list_id |-> @.list_id, list |-> <<>>]]
         ELSE [A EXCEPT ![f].list = l]

\* a finally that leaves the session in the registry
disconnect_only(c, A) ==
    /\ active_connections' = disconnect(A, c, handler[c].file)
    /\ sessions' = sessions
    /\ handler' = [handler EXCEPT ![c] = [NoHandler EXCEPT !.pc = "ended",
                                                           !.file = handler[c].file]]

\* the finally of the handler: disconnect and remove_session
EndpointFinally(c, A) ==
    /\ active_connections' = disconnect(A, c, handler[c].file)
    /\ sessions' = [sessions EXCEPT ![c] = NoSession]
    /\ handler' = [handler EXCEPT ![c] = [NoHandler EXCEPT !.pc = "ended",
                                                           !.file = handler[c].file]]

\* broadcast_to_file up to its loop, lines 56-58: the list of the file is
\* taken if the file is a key (list_id 0: it is not)
BeginLoop(A, f) ==
    IF A[f].present
    THEN [NoLoop EXCEPT !.index = 1, !.list_id = A[f].list_id,
                        !.first = {A[f].list[i] : i \in 1..Len(A[f].list)}]
    ELSE [NoLoop EXCEPT !.index = 1]

\* the loop of the broadcast of a stage when the stage is entered: the
\* updates from the cache await get_cached_data before they broadcast, so
\* their loop begins with the next step of the handler (index 0)
EnterStage(stage, A, f) ==
    IF stage \in {"emotion", "transcript"} THEN NoLoop ELSE BeginLoop(A, f)

\* the message of a stage of the handling of the message m: the time_update
\* or play itself, then for a time_update the emotion update (lines 326-351:
\* of the cached segment at current_time, else the mock data) and the
\* transcript update
MessageOf(f, m, stage) ==
    CASE stage = "message" -> Message(m.type, m.current_time, "")
      [] stage = "emotion" ->
            IF get_emotion_at_time(CachedEmotions(f), m.current_time) # 0
            THEN Message("emotion_update", m.current_time, "cache")
            ELSE Message("emotion_update", m.current_time, "mock")
      [] stage = "emotion_except" -> Message("emotion_update", m.current_time, "mock")
      [] stage = "transcript" ->
            Message("transcript_update", m.current_time, IF f = "fa" THEN "cache" ELSE "mock")
      [] OTHER -> Message("transcript_update", m.current_time, "mock")

\* the stage after a broadcast that returned (lines 205-217), "" for the
\* next receive_text
NextStage(m, stage) ==
    CASE stage = "message" -> IF m.type = "time_update" THEN "emotion" ELSE ""
      [] stage \in {"emotion", "emotion_except"} -> "transcript"
      [] OTHER -> ""

\* the stage after a broadcast that raised: the except of
\* send_real_emotion_update and send_real_transcript_update sends the mock
\* update (lines 353-355, 398-400); "" where the exception reaches the
\* handler's except, which breaks the loop
ExceptStage(stage) ==
    CASE stage = "emotion" -> "emotion_except"
      [] stage = "transcript" -> "transcript_except"
      [] OTHER -> ""

\* lines 65-66 for the connections of `disconnected` from the k-th on:
\* active_connections[file_id].remove(connection); raised when the file is
\* no key (KeyError) or the connection is not in the list (ValueError)
RECURSIVE RemoveDisconnected(_, _, _)
RemoveDisconnected(entry, disconnected, k) ==
    IF k > Len(disconnected) THEN [entry |-> entry, raised |-> FALSE]
    ELSE IF ~entry.present \/ ~In(entry.list, disconnected[k])
    THEN [entry |-> entry, raised |-> TRUE]
    ELSE RemoveDisconnected([entry EXCEPT !.list = Remove(@, disconnected[k])],
                            disconnected, k + 1)

\* the handler up to its first receive_text: a file that is not uploaded
\* closes the connection (lines 168-173); else connect, create_session and
\* the connected message
Connect(c, f) ==
    /\ handler[c].pc = "new"
    /\ IF f = Missing
       THEN /\ handler' = [handler EXCEPT ![c].pc = "ended", ![c].file = f]
            /\ client' = [client EXCEPT ![c] = "gone"]
            /\ UNCHANGED <<inbox, sessions, active_connections>>
       ELSE /\ active_connections' = connect(active_connections, c, f)
            /\ sessions' = [sessions EXCEPT ![c] = PlaybackSession(f)]
            /\ handler' = [handler EXCEPT ![c].pc = "receive", ![c].file = f]
            /\ client' = [client EXCEPT ![c] = "open"]
            /\ inbox' = [inbox EXCEPT ![c] = @ \cup {Message("connected", 0, "")}]
    /\ UNCHANGED received
    /\ UNCHANGED <<pvars, fmvars, avars, channel, request>>

\* receive_text returns a message of the client, lines 192-243: text that
\* is no JSON object raises and breaks the loop; a time_update sets the
\* position and the playing state of the session, a play the playing state,
\* a seek the position, and the broadcast begins
Receive(c, m) ==
    /\ handler[c].pc = "receive"
    /\ client[c] = "open"
    /\ received < MaxMessages
    /\ received' = received + 1
    /\ IF m.type = "malformed"
       THEN EndpointFinally(c, active_connections)
       ELSE /\ sessions' = [sessions EXCEPT
                              ![c].current_time =
                                  IF m.type \in {"time_update", "seek"}
                                  THEN m.current_time ELSE @,
                              ![c].is_playing =
                                  IF m.type = "seek" THEN @ ELSE m.is_playing,
                              ![c].is_paused =
                                  IF m.type = "seek" THEN @ ELSE ~m.is_playing]
            /\ handler' = [handler EXCEPT
                              ![c].pc = "sending",
                              ![c].message = m,
                              ![c].stage = "message",
                              ![c].loop = BeginLoop(active_connections, handler[c].file)]
            /\ UNCHANGED active_connections
    /\ UNCHANGED <<client, inbox>>
    /\ UNCHANGED <<pvars, fmvars, avars, channel, request>>

\* the end of the loop of broadcast_to_file of the handler c, lines 64-66
remove_disconnected(c) ==
    IF handler[c].loop.list_id = 0
    THEN [entry |-> active_connections[handler[c].file], raised |-> FALSE]
    ELSE RemoveDisconnected(active_connections[handler[c].file],
                            handler[c].loop.disconnected, 1)

\* a broadcast the connections of every file get
connections_of_any(f, id) ==
    IF f \in PlaybackFiles /\ id # 0
    THEN LET g == CHOOSE x \in PlaybackFiles : x # f IN
         active_connections[f].list \o active_connections[g].list
    ELSE <<>>

\* the list object the loop of a broadcast iterates: the list of the file
\* taken at line 58; once the key is deleted that list is empty
connections_of(f, id) ==
    IF id # 0 /\ active_connections[f].present /\ active_connections[f].list_id = id
    THEN active_connections[f].list
    ELSE <<>>

\* one step of broadcast_to_file in the handler c: send_text to the next
\* connection of the list, which raises if its client is gone; after the
\* last one the disconnected connections are removed, and the handler goes
\* on with the next stage, or ends if the exception reaches it
Send(c) ==
    /\ handler[c].pc = "sending"
    /\ LET f == handler[c].file
           loop == IF handler[c].loop.index = 0
                   THEN BeginLoop(active_connections, f)
                   ELSE handler[c].loop
           list == connections_of(f, loop.list_id)
       IN  IF loop.list_id # 0 /\ loop.index <= Len(list)
           THEN LET to == list[loop.index] IN
                /\ IF client[to] = "open"
                   THEN /\ inbox' = [inbox EXCEPT ![to] =
                                @ \cup {MessageOf(f, handler[c].message, handler[c].stage)}]
                        /\ handler' = [handler EXCEPT ![c].loop =
                                [loop EXCEPT !.index = @ + 1,
                                             !.delivered = @ \cup {to}]]
                   ELSE /\ handler' = [handler EXCEPT ![c].loop =
                                [loop EXCEPT !.index = @ + 1,
                                             !.disconnected = Append(@, to)]]
                        /\ UNCHANGED inbox
                /\ UNCHANGED <<sessions, active_connections>>
           ELSE LET done == remove_disconnected(c)
                    A == [active_connections EXCEPT ![f] = done.entry]
                    stage == IF done.raised THEN ExceptStage(handler[c].stage)
                             ELSE NextStage(handler[c].message, handler[c].stage)
                IN  /\ IF stage # ""
                       THEN /\ handler' = [handler EXCEPT ![c].stage = stage,
                                                           ![c].loop = EnterStage(stage, A, f)]
                            /\ active_connections' = A
                            /\ UNCHANGED sessions
                       ELSE IF done.raised
                       THEN EndpointFinally(c, A)
                       ELSE /\ handler' = [handler EXCEPT ![c].pc = "receive",
                                                           ![c].message = NoMessage,
                                                           ![c].stage = "",
                                                           ![c].loop = NoLoop]
                            /\ active_connections' = A
                            /\ UNCHANGED sessions
                    /\ UNCHANGED inbox
    /\ UNCHANGED <<client, received>>
    /\ UNCHANGED <<pvars, fmvars, avars, channel, request>>

\* receive_text raises WebSocketDisconnect: the client is gone
ReceiveDisconnect(c) ==
    /\ handler[c].pc = "receive"
    /\ client[c] = "gone"
    /\ EndpointFinally(c, active_connections)
    /\ UNCHANGED <<client, inbox, received>>
    /\ UNCHANGED <<pvars, fmvars, avars, channel, request>>

\* the client closes its end of the connection
ClientClose(c) ==
    /\ client[c] = "open"
    /\ client' = [client EXCEPT ![c] = "gone"]
    /\ UNCHANGED <<handler, inbox, sessions, active_connections, received>>
    /\ UNCHANGED <<pvars, fmvars, avars, channel, request>>

\* the messages the clients send
ClientMessages ==
    {[type |-> "time_update", current_time |-> t, is_playing |-> TRUE] : t \in Cursors}
    \cup {[type |-> "seek", current_time |-> t, is_playing |-> FALSE] : t \in Cursors}
    \cup {[type |-> "play", current_time |-> 0, is_playing |-> TRUE],
          [type |-> "malformed", current_time |-> 0, is_playing |-> FALSE]}

\* the file_id of the path of the connection c: the first two connections
\* ask for the file with cached results, the second one possibly under an
\* id that is not uploaded, the others for the file without
Requested(c) ==
    IF c = 1 THEN {"fa"} ELSE IF c = 2 THEN {"fa", Missing} ELSE {"fb"}

PlaybackNext ==
    \/ \E c \in Conns : \E f \in Requested(c) : Connect(c, f)
    \/ \E c \in Conns : \E m \in ClientMessages : Receive(c, m)
    \/ \E c \in Conns : Send(c)
    \/ \E c \in Conns : ReceiveDisconnect(c)
    \/ \E c \in Conns : ClientClose(c)

PlaybackSpec == Init /\ [][PlaybackNext]_vars

----
\* ProcessingPipeline.is_processing
is_processing(f) == active_processes[f] # NoRun

\* ProcessingPipeline.get_processing_status: the redis record, else
\* "completed" when complete_results is cached, else the cached error, else None.
\* `timestamp` says that the record has the key: status_data, error_data and
\* both fallback records have it.
get_processing_status(f) ==
    IF status[f] # NoRec
    THEN [file_id |-> status[f].file_id, status |-> status[f].status,
          progress |-> status[f].progress, error |-> status[f].error,
          timestamp |-> TRUE]
    ELSE IF cache[f]["complete_results"] # Absent
    THEN [file_id |-> f, status |-> COMPLETED, progress |-> 100, error |-> FALSE,
          timestamp |-> TRUE]
    ELSE IF cache[f]["error"] # Absent
    THEN [file_id |-> f, status |-> FAILED, progress |-> 0, error |-> TRUE,
          timestamp |-> TRUE]
    ELSE NoRec

\* get_upload_status for a file of uploaded_files
get_upload_status(f) ==
    LET status_data == get_processing_status(f) IN
    IF status_data # NoRec
    THEN [status |-> status_data.status,
          progress |-> IF status_data.progress = NoProgress THEN 0 ELSE status_data.progress,
          is_processing |-> is_processing(f)]
    ELSE [status |-> uploaded_files[f],
          progress |-> upload_progress_map(uploaded_files[f]),
          is_processing |-> is_processing(f)]

----
(***************************************************************************)
(* The processing channel, websocket_processing_endpoint of                *)
(* api/websocket.py, and websocket_realtime of api/realtime_websocket.py,  *)
(* for one connection, beside the runs of the pipeline.                    *)
(***************************************************************************)

\* the stages of simulate_processing_updates, lines 293-298
stages == <<"extracting", "transcribing", "analyzing", "completed">>

\* a send_text of the message of this type to the client of the connection
SendTo(ch, type) ==
    [ch EXCEPT !.first = IF @ = "" THEN type ELSE @, !.sent = @ \cup {type}]

\* websocket_realtime up to its loop, lines 104-114: accept and the test
\* message
RealtimeConnect(f) ==
    /\ channel.pc = "new"
    /\ channel' = [SendTo(channel, "test") EXCEPT !.pc = "heartbeat",
                                                  !.endpoint = "realtime", !.file = f]
    /\ UNCHANGED <<handler, client, inbox, sessions, active_connections, received,
                   request>>
    /\ UNCHANGED <<pvars, fmvars, avars>>

\* the loop of websocket_realtime, lines 117-126: a heartbeat after a
\* second, until send_text raises
Heartbeat ==
    /\ channel.pc = "heartbeat"
    /\ \/ channel' = SendTo(channel, "heartbeat")
       \/ channel' = [channel EXCEPT !.pc = "ended"]
    /\ UNCHANGED <<handler, client, inbox, sessions, active_connections, received,
                   request>>
    /\ UNCHANGED <<pvars, fmvars, avars>>

\* websocket_processing_endpoint up to its try, lines 80-108: a file that is
\* not uploaded closes the connection; else connect and the connected message
ProcessingConnect(f) ==
    /\ channel.pc = "new"
    /\ IF f = Missing
       THEN channel' = [channel EXCEPT !.pc = "ended", !.endpoint = "processing",
                                       !.file = f]
       ELSE channel' = [SendTo(channel, "connected") EXCEPT
                            !.pc = "connected", !.endpoint = "processing", !.file = f]
    /\ UNCHANGED <<handler, client, inbox, sessions, active_connections, received,
                   request>>
    /\ UNCHANGED <<pvars, fmvars, avars>>

\* lines 112-119: the initial status_update
InitialStatus ==
    /\ channel.pc = "connected"
    /\ channel' = [SendTo(channel, "status_update") EXCEPT !.pc = "status_sent"]
    /\ UNCHANGED <<handler, client, inbox, sessions, active_connections, received,
                   request>>
    /\ UNCHANGED <<pvars, fmvars, avars>>

\* lines 121-133: the updates of the run if the file is processing, the
\* completed message if the AudioFile is completed, the simulated updates
\* if its status is not terminal, nothing if it is failed
Dispatch ==
    /\ channel.pc = "status_sent"
    /\ LET f == channel.file IN
       channel' =
           IF is_processing(f) THEN [channel EXCEPT !.pc = "updates"]
           ELSE IF uploaded_files[f] = COMPLETED
           THEN [SendTo(channel, "completed") EXCEPT !.pc = "receive"]
           ELSE IF uploaded_files[f] \notin {COMPLETED, FAILED}
           THEN [channel EXCEPT !.pc = "simulate", !.stage = 1]
           ELSE [channel EXCEPT !.pc = "receive"]
    /\ UNCHANGED <<handler, client, inbox, sessions, active_connections, received,
                   request>>
    /\ UNCHANGED <<pvars, fmvars, avars>>

\* send_real_time_processing_updates, lines 260-281: the record of
\* get_processing_status is sent as progress_update; a completed or failed
\* record is followed by completed or error and ends the loop, any other by
\* a sleep
SendProgress ==
    /\ channel.pc = "updates"
    /\ LET status_data == get_processing_status(channel.file) IN
       channel' =
           IF status_data = NoRec THEN [channel EXCEPT !.pc = "sleep"]
           ELSE IF status_data.status = COMPLETED
           THEN [SendTo(SendTo(channel, "progress_update"), "completed") EXCEPT
                    !.pc = "receive"]
           ELSE IF status_data.status = FAILED
           THEN [SendTo(SendTo(channel, "progress_update"), "error") EXCEPT
                    !.pc = "receive"]
           ELSE [SendTo(channel, "progress_update") EXCEPT !.pc = "sleep"]
    /\ UNCHANGED <<handler, client, inbox, sessions, active_connections, received,
                   request>>
    /\ UNCHANGED <<pvars, fmvars, avars>>

\* line 258 after the sleep: the loop goes on while the file is processing
Wake ==
    /\ channel.pc = "sleep"
    /\ channel' = [channel EXCEPT !.pc = IF is_processing(channel.file)
                                         THEN "updates" ELSE "receive"]
    /\ UNCHANGED <<handler, client, inbox, sessions, active_connections, received,
                   request>>
    /\ UNCHANGED <<pvars, fmvars, avars>>

\* simulate_processing_updates, lines 300-320: after each sleep the
\* progress_update of the next stage, and completed after the last one
Simulate ==
    /\ channel.pc = "simulate"
    /\ channel' =
           IF stages[channel.stage] = "completed"
           THEN [SendTo(SendTo(channel, "progress_update"), "completed") EXCEPT
                    !.pc = "receive", !.stage = 0]
           ELSE [SendTo(channel, "progress_update") EXCEPT !.stage = @ + 1]
    /\ UNCHANGED <<handler, client, inbox, sessions, active_connections, received,
                   request>>
    /\ UNCHANGED <<pvars, fmvars, avars>>

\* the loop of lines 136-152: a ping is answered with pong; the client
\* disconnects or sends no JSON and the handler ends
ChannelReceive ==
    /\ channel.pc = "receive"
    /\ \/ channel' = SendTo(channel, "pong")
       \/ channel' = [channel EXCEPT !.pc = "ended"]
    /\ UNCHANGED <<handler, client, inbox, sessions, active_connections, received,
                   request>>
    /\ UNCHANGED <<pvars, fmvars, avars>>

ChannelNext ==
    \/ Next
    \/ \E f \in Files : RealtimeConnect(f)
    \/ Heartbeat
    \/ \E f \in Files \cup {Missing} : ProcessingConnect(f)
    \/ InitialStatus
    \/ Dispatch
    \/ SendProgress
    \/ Wake
    \/ Simulate
    \/ ChannelReceive

ChannelSpec == Init /\ [][ChannelNext]_vars

----
(***************************************************************************)
(* upload_file of api/upload.py with detect_file_format of                 *)
(* services/video_utils.py, and the run it starts.                         *)
(***************************************************************************)

\* SUPPORTED_VIDEO_FORMATS and SUPPORTED_AUDIO_FORMATS: suffix -> format
SUPPORTED_VIDEO_FORMATS ==
    [x \in {".mp4", ".avi", ".mov", ".mkv", ".webm", ".flv"} |->
        CASE x = ".mp4" -> "MP4" [] x = ".avi" -> "AVI" [] x = ".mov" -> "MOV"
          [] x = ".mkv" -> "MKV" [] x = ".webm" -> "WebM" [] OTHER -> "FLV"]

SUPPORTED_AUDIO_FORMATS ==
    [x \in {".mp3", ".wav", ".flac", ".aac", ".ogg"} |->
        CASE x = ".mp3" -> "MP3" [] x = ".wav" -> "WAV" [] x = ".flac" -> "FLAC"
          [] x = ".aac" -> "AAC" [] OTHER -> "OGG"]

\* the suffixes of the uploaded filenames ("" for a name without one)
Suffixes ==
    DOMAIN SUPPORTED_VIDEO_FORMATS \cup DOMAIN SUPPORTED_AUDIO_FORMATS
    \cup {".MP3", ".WebM", ".txt", ".pdf", ""}

\* str.lower on a suffix
lower(x) == CASE x = ".MP3" -> ".mp3" [] x = ".WebM" -> ".webm" [] OTHER -> x

\* detect_file_format: <<file_type, format>>, or "unsupported" for the
\* ValueError
detect_file_format(x) ==
    LET file_ext == lower(x) IN
    IF file_ext \in DOMAIN SUPPORTED_VIDEO_FORMATS
    THEN <<"video", SUPPORTED_VIDEO_FORMATS[file_ext]>>
    ELSE IF file_ext \in DOMAIN SUPPORTED_AUDIO_FORMATS
    THEN <<"audio", SUPPORTED_AUDIO_FORMATS[file_ext]>>
    ELSE <<"unsupported", "">>

\* supported_formats of the 415 answer, lines 96-98
supported_formats == {"MP3", "WAV", "MP4", "AVI", "MOV", "MKV", "WebM", "FLV"}

\* the file_id of the upload: a new uuid
NewFileId == "f1"

\* the answer of upload_file
Answer(x, code, id, formats) ==
    [endpoint |-> "upload", arg |-> x, status_code |-> code, file_id |-> id,
     supported_formats |-> formats, by |-> 0]

\* upload_file for a filename with the suffix x; size says whether the
\* content is within the limits, above 100 MB, or a video longer than 120 s.
\* An unsupported format is answered with 415 and a content that is too
\* large with 413 before anything is stored; the video that is too long is
\* stored by store_uploaded_file, found too long by
\* validate_file_constraints and removed from the disk; any other file is
\* stored, put into uploaded_files and its processing task is started
upload_file(x, size) ==
    /\ IF detect_file_format(x)[1] = "unsupported"
       THEN /\ request' = Answer(x, 415, "", supported_formats)
            /\ UNCHANGED <<store, startCalls, task, active_processes, ready>>
       ELSE IF size = "too_large"
       THEN /\ request' = Answer(x, 413, "", {})
            /\ UNCHANGED <<store, startCalls, task, active_processes, ready>>
       ELSE /\ ~store.file_metadata[NewFileId].known
            /\ IF size = "too_long" /\ detect_file_format(x)[1] = "video"
               THEN /\ request' = Answer(x, 413, "", {})
                    /\ store' = [store EXCEPT
                                    !.file_metadata[NewFileId] =
                                        [Uploaded(now) EXCEPT !.on_disk = FALSE],
                                    !.metadata_file = TRUE]
                    /\ UNCHANGED <<startCalls, task, active_processes, ready>>
               ELSE /\ request' = Answer(x, 200, NewFileId, {})
                    /\ store' = [store EXCEPT
                                    !.file_metadata[NewFileId] = Uploaded(now),
                                    !.metadata_file = TRUE,
                                    !.memory = @ \cup {NewFileId}]
                    /\ startCalls' = startCalls + 1
                    /\ LET r == NewRun IN
                        /\ task' = [task EXCEPT ![r] =
                                        [IdleTask EXCEPT !.file = NewFileId, !.pc = "new"]]
                        /\ active_processes' =
                                [active_processes EXCEPT ![NewFileId] = r]
                        /\ ready' = Append(ready, <<"task", r>>)
    /\ UNCHANGED <<status, uploaded_files, cache, cancel>>
    /\ UNCHANGED <<now, cache_dir, put, get>>
    /\ UNCHANGED <<handler, client, inbox, sessions, active_connections, received,
                   channel>>
    /\ UNCHANGED avars

\* upload_file without a filename: ValueError, answered with 400
upload_unnamed ==
    /\ request' = [NoRequest EXCEPT !.endpoint = "upload", !.status_code = 400]
    /\ UNCHANGED <<pvars, fmvars, avars>>
    /\ UNCHANGED <<handler, client, inbox, sessions, active_connections, received,
                   channel>>

UploadNext ==
    \/ \E x \in Suffixes : \E size \in {"ok", "too_large", "too_long"} : upload_file(x, size)
    \/ upload_unnamed
    \/ \E r \in Runs : Begin(r)
    \/ \E r \in Runs : Extract(r)
    \/ \E r \in Runs : Transcribe(r)
    \/ \E r \in Runs : Analyze(r)
    \/ \E r \in Runs : CacheResults(r)
    \/ \E r \in Runs : Finish(r)
    \/ \E r \in Runs : Reraise(r)

UploadSpec == Init /\ [][UploadNext]_vars

----
(***************************************************************************)
(* get_transcript and get_emotions of api/processing.py beside the runs of *)
(* the pipeline, whose cache writes may fail.                              *)
(***************************************************************************)

\* the answer of get_transcript and get_emotions; by is the run that wrote
\* the returned artifact, Absent when the answer has none from the cache
Result(endpoint, f, code, by) ==
    [endpoint |-> endpoint, arg |-> f, status_code |-> code, file_id |-> f,
     supported_formats |-> {}, by |-> by]

\* lines 34-57 and 97-120: 409 for a file of uploaded_files that is not
\* completed, 404 for a file that is neither there nor on the disk, else 0
Precheck(f) ==
    IF f \in Files
    THEN IF uploaded_files[f] # COMPLETED THEN 409 ELSE 0
    ELSE 404

\* get_transcript: the cached transcript, 404 without one (lines 59-71)
get_transcript(f) ==
    /\ request' =
          IF Precheck(f) # 0 THEN Result("transcript", f, Precheck(f), Absent)
          ELSE IF cache[f]["transcript"] # Absent
          THEN Result("transcript", f, 200, cache[f]["transcript"])
          ELSE Result("transcript", f, 404, Absent)
    /\ UNCHANGED <<pvars, fmvars, avars>>
    /\ UNCHANGED <<handler, client, inbox, sessions, active_connections, received,
                   channel>>

\* get_emotions: the cached emotions; without them the mock analysis of
\* lines 129-156 is returned
get_emotions(f) ==
    /\ request' =
          IF Precheck(f) # 0 THEN Result("emotions", f, Precheck(f), Absent)
          ELSE IF cache[f]["emotions"] # Absent
          THEN Result("emotions", f, 200, cache[f]["emotions"])
          ELSE Result("emotions", f, 200, Absent)
    /\ UNCHANGED <<pvars, fmvars, avars>>
    /\ UNCHANGED <<handler, client, inbox, sessions, active_connections, received,
                   channel>>

ResultsNext ==
    \/ FaultNext
    \/ \E f \in Files \cup {Missing} : get_transcript(f)
    \/ \E f \in Files \cup {Missing} : get_emotions(f)

ResultsSpec == Init /\ [][ResultsNext]_vars

----
(***************************************************************************)
(* The status endpoint of api/upload.py across a restart of the server.    *)
(* uploaded_files of shared/state.py and the registry of the pipeline live *)
(* in the memory of the process; the redis records, the cache directory    *)
(* and the stored files outlive it.  The stored file of an uploaded file   *)
(* stays at its stored_path: no sweep and no deletion here.                *)
(***************************************************************************)

\* uploaded_files has no entry of the file
NotInMemory == "none"

\* the process of the server ends and another one starts: uploaded_files
\* (shared/state.py line 12) and active_processes are empty again and the
\* tasks of the old process are gone
Restart ==
    /\ \E f \in Files : uploaded_files[f] # NotInMemory
    /\ uploaded_files' = [f \in Files |-> NotInMemory]
    /\ active_processes' = [f \in Files |-> NoRun]
    /\ task' = [r \in Runs |->
                   IF task[r].pc \in {"idle", "done"} THEN task[r]
                   ELSE [task[r] EXCEPT !.pc = "done", !.outcome = "lost"]]
    /\ ready' = <<>>
    /\ UNCHANGED <<status, cache, cancel, startCalls>>
    /\ UNCHANGED <<fmvars, avars, rtvars>>

\* upload_file has put the file into uploaded_files and starts its task
StartUploaded(f) == uploaded_files[f] # NotInMemory /\ start_processing_task(f)

\* the answer of the status endpoint
StatusAnswer(f, code, s, progress) ==
    [endpoint |-> "status", arg |-> f, status_code |-> code, file_id |-> f,
     supported_formats |-> {}, by |-> 0, status |-> s, progress |-> progress]

\* get_upload_status, lines 169-193: the file is not in uploaded_files and
\* is on the disk; without a record of get_processing_status the answer is
\* completed with progress 100
get_upload_status_from_disk(f) ==
    LET status_data == get_processing_status(f) IN
    IF status_data # NoRec
    THEN StatusAnswer(f, 200, status_data.status,
                      IF status_data.progress = NoProgress THEN 0
                      ELSE status_data.progress)
    ELSE StatusAnswer(f, 200, COMPLETED, 100)

\* GET /upload/{file_id}/status: the whole handler
upload_status(f) ==
    /\ request' =
          IF f \notin Files THEN StatusAnswer(f, 404, "", 0)
          ELSE IF uploaded_files[f] # NotInMemory
          THEN StatusAnswer(f, 200, get_upload_status(f).status,
                            get_upload_status(f).progress)
          ELSE get_upload_status_from_disk(f)
    /\ UNCHANGED <<pvars, fmvars, avars>>
    /\ UNCHANGED <<handler, client, inbox, sessions, active_connections, received,
                   channel>>

StatusNext ==
    \/ \E f \in Files : StartUploaded(f)
    \/ \E r \in Runs : Begin(r)
    \/ \E r \in Runs : Extract(r)
    \/ \E r \in Runs : Transcribe(r)
    \/ \E r \in Runs : Analyze(r)
    \/ \E r \in Runs : CacheResults(r)
    \/ \E r \in Runs : Finish(r)
    \/ \E r \in Runs : Reraise(r)
    \/ Restart
    \/ \E f \in Files \cup {Missing} : upload_status(f)

StatusSpec == Init /\ [][StatusNext]_vars

----
\* Claims

\* the runs of file f that have been started and have not ended
Unfinished(f) == {r \in Runs : task[r].file = f /\ task[r].pc # "done"}
\* the runs of file f that have taken a step and have not ended
Executing(f) == {r \in Runs : task[r].file = f /\ task[r].pc \notin {"idle", "new", "done"}}
\* cancel_processing has not been called on a run of f
NoCancelCalled(f) == \A c \in Cancels : cancel[c].pc = "idle" \/ cancel[c].file # f
\* the statuses run r has written, in order
StatusesOf(r) == [i \in 1..Len(task[r].written) |-> task[r].written[i].status]
IsPrefix(s, t) == Len(s) <= Len(t) /\ \A i \in 1..Len(s) : s[i] = t[i]
Forward == <<EXTRACTING_AUDIO, TRANSCRIBING, ANALYZING, COMPLETED>>
Terminal == {COMPLETED, FAILED}

C2_AtMostOneRun == \A f \in Files : Cardinality(Executing(f)) <= 1

C4_TerminalIsFinal ==
    [][\A f \in Files :
          (status[f].status \in Terminal /\ status'[f].by = status[f].by)
          => status'[f].status = status[f].status]_vars

\* C5: a cancel_processing called while a run of the file is registered
\* returns True, and then the status is FAILED and is_processing is false.
C5_CancelInFlight ==
    [][\A c \in Cancels :
          (cancel[c].result = "none" /\ cancel'[c].result # "none")
          => /\ cancel'[c].result = "true"
             /\ status'[cancel'[c].file].status = FAILED
             /\ active_processes'[cancel'[c].file] = NoRun]_vars

\* C6: a run that is cancelled while suspended inside a stage is not
\* interrupted: the stage's output is written before the run ends, and when
\* the run has ended the status is FAILED.
C6_CancelAtBoundary ==
    [][\A r \in Runs :
          (task[r].must_cancel /\ task[r].pc \in {"extract", "transcribe", "analyze"}
              /\ task'[r].pc = "done")
          => /\ cache'[task[r].file][PendingWrite(task[r].file, task[r].pc)] = r
             /\ status'[task[r].file].status = FAILED]_vars

\* run r wrote FAILED as its last status
FailedLast(r) ==
    /\ task[r].written # <<>>
    /\ task[r].written[Len(task[r].written)].status = FAILED
    /\ \A i \in 1..(Len(task[r].written) - 1) : task[r].written[i].status # FAILED

C9_ProgressMonotone ==
    [][\A f \in Files :
          /\ (/\ is_processing(f) /\ active_processes'[f] = active_processes[f]
              /\ get_upload_status(f).status \notin Terminal
              /\ get_upload_status(f)'.status \notin Terminal)
             => get_upload_status(f)'.progress >= get_upload_status(f).progress
          /\ status'[f] # status[f] => status'[f].by = active_processes[f]]_vars

\* run r wrote COMPLETED with progress 100 last, returned, and the file is
\* not processing
Completed(r) ==
    /\ task[r].pc = "done" /\ task[r].outcome = "returned"
    /\ task[r].written # <<>>
    /\ task[r].written[Len(task[r].written)] = [status |-> COMPLETED, progress |-> 100]
    /\ status[task[r].file].status = COMPLETED /\ status[task[r].file].progress = 100
    /\ ~is_processing(task[r].file)

C11_RecordComplete ==
    \A f \in Files :
        LET rec == get_processing_status(f) IN
        rec # NoRec
        => /\ rec.file_id = f
           /\ rec.status \in ProcessingStatus
           /\ rec.progress \in 0..100
           /\ rec.timestamp

\* C12: whenever the status of a file becomes ANALYZING its transcript entry
\* is in the cache, and whenever it becomes COMPLETED its emotions entry is
\* in the cache.
C12_StageOutputCached ==
    [][\A f \in Files :
          status'[f] # status[f]
          => /\ status'[f].status = ANALYZING => cache'[f]["transcript"] # Absent
             /\ status'[f].status = COMPLETED => cache'[f]["emotions"] # Absent]_vars

\* C13: in every state where the status of a file is COMPLETED its
\* complete_results entry is in the cache.
C13_CompletedHasResults ==
    \A f \in Files :
        status[f].status = COMPLETED => cache[f]["complete_results"] # Absent

\* the call j of get_cached_data returns in this step, having read a text
Returns(j) == get[j].pc = "read" /\ get'[j].pc = "done"

\* the outcome of a call that read a complete text made from the payload
\* data and hands out `result`: before max_file_age has passed since
\* cached_at, the result and the file unchanged (cached_at as it was);
\* from then on None and no file
RoundTrip(j, result) ==
    LET n == get[j].name IN
    IF now - get[j].seen.cached_at < max_file_age
    THEN get'[j].result = result /\ cache_dir'[n] = cache_dir[n]
    ELSE get'[j].result = None /\ cache_dir'[n] = NoFile

\* C14 as stated: a get_cached_data that reads the text a
\* cache_processed_data wrote returns the payload of that call unchanged,
\* however many reads were made, while less than the TTL has passed since
\* the write (the read leaves cached_at as it is); at or after the TTL it
\* returns None and the entry is removed.
C14_RoundTrip ==
    [][\A j \in Gets :
          (Returns(j) /\ get[j].seen.state = "json")
          => RoundTrip(j, PayloadOf(get[j].seen.val))]_vars

\* C14 amended: the same for a payload made of values json encodes; a value
\* json cannot encode comes back as its str().
C14_RoundTripOfJson ==
    [][\A j \in Gets :
          (Returns(j) /\ get[j].seen.state = "json")
          => LET data == PayloadOf(get[j].seen.val) IN
             RoundTrip(j, [data EXCEPT !.type = "str"])]_vars

\* C14 witness: two reads returned the payload, and a read after the TTL
\* returned None
C14_Witness ==
    /\ \E j \in Gets : get[j].pc = "done" /\ get[j].result = [val |-> "a", type |-> "str"]
    /\ \E j \in Gets : get[j].pc = "done" /\ get[j].seen.state = "json"
                        /\ get[j].result = None

\* C15: a get_cached_data that reads the file while an overwrite of an
\* unexpired entry is in progress returns the old payload or the new one,
\* never None.
C15_NoTornRead ==
    [][\A j \in Gets :
          (/\ Returns(j) /\ get[j].racing
           /\ \A i \in Puts : put[i].pc # "raised"
           /\ get[j].seen.val # "" /\ now - get[j].seen.cached_at < max_file_age)
          => /\ get'[j].result # None
             /\ get'[j].result.val \in {d.val : d \in Payloads}]_vars

\* C16: a get_cached_data that reads a text that is no JSON document returns
\* None and raises nothing.
C16_CorruptIsMiss ==
    [][\A j \in Gets :
          (Returns(j) /\ get[j].seen.state = "torn") => get'[j].result = None]_vars

\* C16 witness: a call read the file a failed write left and returned None
C16_Witness ==
    \E j \in Gets : /\ get[j].pc = "done" /\ get[j].seen.state = "torn"
                    /\ get[j].result = None
                    /\ \E i \in Puts : put[i].pc = "raised"
                    /\ \A i \in Puts : put[i].pc # "write"

\* C17: when an explicit deletion of a file has completed, no cache entry of
\* any kind remains for that file id and the deletion reports success
C17_DeleteRemovesCache ==
    [][store'.deletes = store.deletes + 1
       => /\ store'.answer.status_code = 200
          /\ \A n \in CacheNames :
                n[1] = store'.answer.file_id => ~Exists(cache_dir'[n])]_vars

\* the file ids whose expiry time has passed when the sweep starts
ExpiredBefore == {id \in StoredIds : store.file_metadata[id].known
                                     /\ now > store.file_metadata[id].expires_at}

\* the stored files and the cache files that are there before the sweep and
\* not after it
FilesGone == {id \in StoredIds :
                /\ store.file_metadata[id].known /\ store.file_metadata[id].on_disk
                /\ ~(store'.file_metadata[id].known /\ store'.file_metadata[id].on_disk)}
CacheGone == {n \in CacheNames : Exists(cache_dir[n]) /\ ~Exists(cache_dir'[n])}

\* file_metadata.json was there, or was written by the sweep, and is not
\* there after it
MetadataGone ==
    IF (store.metadata_file \/ ExpiredBefore # {}) /\ ~store'.metadata_file THEN 1 ELSE 0

\* the cache files of unexpired files the sweep removed for the size limit
Evicted == {n \in CacheGone : n[1] \notin ExpiredBefore /\ store.file_metadata[n[1]].known}

StrictlyHigher(g) ==
    \/ /\ g.text_conf > g.audio_conf
       /\ g.result = [emotion |-> g.text_emotion, confidence |-> (g.text_conf * 8) \div 10]
    \/ /\ g.audio_conf > g.text_conf
       /\ g.result = [emotion |-> g.audio_emotion, confidence |-> (g.audio_conf * 8) \div 10]

\* the tie of the reference's last case, given to the audio prediction
AudioOnTie(g) ==
    /\ g.audio_conf = g.text_conf
    /\ g.result = [emotion |-> g.audio_emotion, confidence |-> (g.audio_conf * 8) \div 10]

\* the reference of the fusion, with `last` for the case of different emotions
Reference(g, last) ==
    IF g.text_conf + g.audio_conf = 0
    THEN g.result = [emotion |-> "neutral", confidence |-> Scale \div 2]
    ELSE IF g.text_emotion = g.audio_emotion
    THEN g.result = [emotion |-> g.text_emotion,
                     confidence |-> Min(Scale, (((g.text_conf + g.audio_conf) \div 2) * 12) \div 10)]
    ELSE last

\* C19: for all emotions and confidences the result of _fuse_emotions is
\* that of the reference: (neutral, 0.5) for a zero sum, the common emotion
\* with min(1.0, average * 1.2) for equal emotions, else the emotion of the
\* strictly higher confidence with 0.8 of it
C19_FuseIsReference ==
    segment.pc = "fused" => Reference(segment, StrictlyHigher(segment))

\* C19 as amended: as above, and different emotions of equal confidence give
\* the audio emotion with 0.8 of that confidence
C19_FuseIsReferenceAudioOnTie ==
    segment.pc = "fused"
    => Reference(segment, StrictlyHigher(segment) \/ AudioOnTie(segment))

\* C19 witness: different emotions of equal confidence above zero are fused
C19_Witness ==
    /\ segment.pc = "fused"
    /\ segment.text_emotion # segment.audio_emotion
    /\ segment.text_conf = segment.audio_conf
    /\ segment.text_conf > 0

\* the two predictions are the same emotion with the same confidence
SamePrediction ==
    /\ segment.pc = "fused"
    /\ segment.text_emotion = segment.audio_emotion
    /\ segment.text_conf = segment.audio_conf

\* fuse(e, c, e, c) = (e, min(1.0, c * 1.2))
Boosted ==
    segment.result = [emotion |-> segment.text_emotion,
                      confidence |-> Min(Scale, (segment.text_conf * 12) \div 10)]

\* C20: fusing a prediction with itself gives its emotion with
\* min(1.0, c * 1.2), for every emotion and every confidence c, c = 0 too
C20_FuseSame == SamePrediction => Boosted

\* C20 as amended: the same for every confidence c above zero
C20_FuseSamePositive == (SamePrediction /\ segment.text_conf > 0) => Boosted

\* C20 witness: a prediction of confidence 1.0 is fused with itself and the
\* result is cut to 1.0
C20_Witness ==
    /\ SamePrediction
    /\ segment.text_conf = Scale
    /\ segment.result.confidence = Scale


\* max of two confidences
Max(a, b) == IF a >= b THEN a ELSE b

\* two different emotions are fused
Disagreement ==
    /\ segment.pc = "fused"
    /\ segment.text_emotion # segment.audio_emotion

\* the fused confidence is at most the higher of the two confidences
Penalized == segment.result.confidence <= Max(segment.text_conf, segment.audio_conf)

\* C21: for different emotions and all confidences c1, c2 in [0,1] the
\* confidence _fuse_emotions returns is at most max(c1, c2)
C21_DisagreementPenalty == Disagreement => Penalized

\* C21 as amended: the same for confidences that are not both zero
C21_DisagreementPenaltyPositive ==
    (Disagreement /\ segment.text_conf + segment.audio_conf > 0) => Penalized

\* C21 witness: different emotions are fused and the higher confidence is
\* that of the text
C21_Witness ==
    /\ Disagreement
    /\ segment.text_conf > segment.audio_conf
    /\ segment.result.confidence > 0


\* the first segment of the list with the label e
FirstAt(segs, e) ==
    CHOOSE i \in 1..Len(segs) :
        /\ segs[i].combined_emotion = e
        /\ \A j \in 1..(i - 1) : segs[j].combined_emotion # e

\* the labels of the segments
LabelsOf(segs) == {segs[i].combined_emotion : i \in 1..Len(segs)}

\* e is the label of the maximal summed weight, and of the labels that
\* share the maximum the one that occurs first
MaxWeightFirst(segs, e) ==
    /\ e \in LabelsOf(segs)
    /\ \A f \in LabelsOf(segs) :
          \/ Score(segs, f) < Score(segs, e)
          \/ Score(segs, f) = Score(segs, e) /\ FirstAt(segs, e) <= FirstAt(segs, f)

\* C22: for a non-empty list of segments the file-level dominant emotion,
\* the overall emotion analyze_emotions calculates as well as what
\* get_dominant_emotion returns, is the label of the maximal sum of
\* duration * combined_confidence, the first to occur among equals
C22_DominantIsMaxWeight ==
    /\ analysis.pc \in {"accepted", "dominant"} /\ analysis.segments # <<>>
       => MaxWeightFirst(analysis.segments, analysis.overall.emotion)
    /\ analysis.pc = "dominant" /\ analysis.segments # <<>>
       => MaxWeightFirst(analysis.segments, analysis.dominant)

\* every segment starts at or after the end of the segment before it
NonOverlapping(v) == \A i \in 2..Len(v) : v[i].start_time >= v[i - 1].end_time

\* C23: an EmotionAnalysis is constructed only of segments in chronological
\* order that do not overlap; every other list is rejected with an error,
\* and no list is changed by the construction
C23_ConstructedOnlyIfOrdered ==
    /\ [](analysis.pc \in {"accepted", "looked", "dominant"}
            => NonOverlapping(analysis.segments))
    /\ [](analysis.pc = "rejected"
            => ~NonOverlapping(analysis.segments) /\ analysis.error # "")
    /\ [][analysis'.segments = analysis.segments]_vars

\* C23 witness: a list whose start times are in order and whose segments
\* overlap was rejected
C23_Witness ==
    /\ analysis.pc = "rejected"
    /\ analysis.error = "overlap"
    /\ Len(analysis.segments) = MaxSegments

\* the segment i of the list covers the time t
Covers(segs, i, t) == segs[i].start_time <= t /\ t <= segs[i].end_time

\* C24: get_emotion_at_time(t) returns the first segment in list order with
\* start_time <= t <= end_time, the earlier of two segments that share the
\* boundary t, and None when no segment covers t
C24_FirstCovering ==
    analysis.pc = "looked"
    => LET segs == analysis.segments
           t == analysis.time_seconds
           f == analysis.found
       IN  /\ f = 0 <=> ~\E i \in 1..Len(segs) : Covers(segs, i, t)
           /\ f # 0 => /\ f \in 1..Len(segs)
                       /\ Covers(segs, f, t)
                       /\ \A j \in 1..(f - 1) : ~Covers(segs, j, t)

\* C24 witness: the time is the boundary of two adjacent segments and the
\* earlier one was returned
C24_Witness ==
    /\ analysis.pc = "looked"
    /\ Len(analysis.segments) >= 2
    /\ analysis.found = 1
    /\ analysis.segments[1].end_time = analysis.time_seconds
    /\ analysis.segments[2].start_time = analysis.time_seconds


\* the words whose interval contains t, and the words completed before t
Containing(words, t) ==
    {i \in 1..Len(words) : words[i].start_time <= t /\ t <= words[i].end_time}
Completed_(words, t) == {i \in 1..Len(words) : words[i].end_time < t}

\* C26: for a transcript the Transcript model accepts and every
\* current_time, the update reports a word whose interval contains
\* current_time or, when no interval contains it, the word completed last
\* before it; the word reported never starts after current_time
C26_CurrentWord ==
    transcript.pc = "sent"
    => LET words == transcript.words
           t == transcript.current_time
           w == transcript.word_index + 1
       IN  /\ Containing(words, t) # {} => w \in Containing(words, t)
           /\ Containing(words, t) = {} /\ Completed_(words, t) # {}
              => /\ w \in Completed_(words, t)
                 /\ \A j \in Completed_(words, t) : words[j].end_time <= words[w].end_time
           /\ w # 0 => words[w].start_time <= t

\* the time is covered by no segment of the cached EmotionAnalysis of the
\* file, which has one
Uncovered(f, t) ==
    /\ CachedEmotions(f) # <<>>
    /\ get_emotion_at_time(CachedEmotions(f), t) = 0

\* C25: on a cursor update whose current_time is covered by no segment of
\* the cached EmotionAnalysis of the file, no emotion_update is sent to any
\* subscriber: no connection has received an emotion_update for a time no
\* cached segment of its file covers
C25_NoUpdateOutsideSegments ==
    \A c \in Conns : \A m \in inbox[c] :
        m.type = "emotion_update" => ~Uncovered(handler[c].file, m.current_time)

\* the handler c leaves the loop of a broadcast with this step
LoopEnds(c) ==
    /\ handler[c].pc = "sending"
    /\ handler'[c].pc # "sending" \/ handler'[c].stage # handler[c].stage

\* the connections the broadcast of the handler c failed to deliver to
Failed(c) ==
    {handler[c].loop.disconnected[i] : i \in 1..Len(handler[c].loop.disconnected)}

\* C27: when the delivery of a broadcast to one subscriber of a file fails,
\* that subscriber is removed from the subscribers of the file, the message
\* is delivered to every other subscriber the broadcast began with, and the
\* handler that broadcasts does not end with the broadcast, also when
\* other subscribers disconnect during it
C27_FailedDeliveryIsPruned ==
    [][\A c \in Conns :
          LoopEnds(c) /\ Failed(c) # {} =>
              /\ handler'[c].pc # "ended"
              /\ handler[c].loop.first \ Failed(c) \subseteq handler[c].loop.delivered
              /\ \A d \in Failed(c) :
                    ~In(active_connections'[handler[c].file].list, d)]_vars

\* the step is one of the handler c handling the messages of its client
Handles(c) ==
    /\ handler[c].pc \in {"receive", "sending"}
    /\ handler'[c] # handler[c]

\* C28: the handling of a cursor update of a session on one file delivers
\* no message to a subscriber of a different file and changes the cursor
\* of no other session: a step of a handler leaves the inbox of every
\* connection of another file and the session of every other connection
\* as they are
C28_Isolation ==
    [][\A c \in Conns :
          Handles(c) =>
              \A d \in Conns \ {c} :
                  /\ sessions'[d] = sessions[d]
                  /\ handler[d].file # handler[c].file => inbox'[d] = inbox[d]]_vars

\* a cursor update of a session on fa is being broadcast while a session on
\* fb is subscribed, which has its first cursor and only the connected message
C28_Witness ==
    \E c, d \in Conns :
        /\ handler[c].file = "fa" /\ handler[c].pc = "sending"
        /\ handler[c].message.type = "time_update"
        /\ sessions[c].current_time = 2
        /\ handler[c].loop.delivered # {}
        /\ handler[d].file = "fb" /\ handler[d].pc = "receive"
        /\ sessions[d] = PlaybackSession("fb")
        /\ inbox[d] = {Message("connected", 0, "")}

\* the connection is in the list of a file
Subscribed(c) ==
    \E f \in PlaybackFiles : In(active_connections[f].list, c)

\* C29: a playback session is in the registry exactly from the connect of
\* its client until the handler of the client ends; it is created for the
\* file of the connection with current_time 0 and not playing; once the
\* handler has ended the session is not in the registry and the connection
\* is subscribed to no file
C29_SessionLifetime ==
    /\ [](\A c \in Conns :
            /\ sessions[c] # NoSession <=> handler[c].pc \in {"receive", "sending"}
            /\ handler[c].pc = "ended" => ~Subscribed(c))
    /\ [][\A c \in Conns :
            sessions[c] = NoSession /\ sessions'[c] # NoSession =>
                sessions'[c] = [file_id |-> handler'[c].file, current_time |-> 0,
                                is_playing |-> FALSE, is_paused |-> FALSE]]_vars

\* the handler of a connection of fa has ended with an exception of the
\* broadcast of a time_update (its client is still there), its session is
\* gone, and the session of another connection is in the registry
C29_Witness ==
    \E c, d \in Conns :
        /\ handler[c].pc = "ended" /\ handler[c].file = "fa"
        /\ client[c] = "open"
        /\ \E m \in inbox[c] : m.type = "time_update"
        /\ sessions[c] = NoSession
        /\ sessions[d] # NoSession

\* the handler c takes a time_update with a negative current_time from
\* receive_text with this step
ReceivesNegative(c) ==
    /\ handler[c].pc = "receive"
    /\ handler'[c].message.type = "time_update"
    /\ handler'[c].message.current_time < 0

\* C30: a cursor update with a negative current_time is rejected: the
\* session keeps its current_time and its play state, no broadcast begins
\* for it, and no subscriber receives a time, emotion or transcript update
\* with a negative current_time
C30_NegativeTimeRejected ==
    /\ [][\A c \in Conns :
            ReceivesNegative(c) =>
                /\ sessions'[c] = sessions[c]
                /\ handler'[c].pc # "sending"]_vars
    /\ [](\A c \in Conns : \A m \in inbox[c] : m.current_time >= 0)

\* the handler c is back at receive_text with this step, the message it
\* handled has set the position of its session
CursorUpdateHandled(c) ==
    /\ handler[c].pc = "sending"
    /\ handler'[c].pc = "receive"
    /\ handler[c].message.type \in {"time_update", "seek"}

\* C31: every cursor update that sets the position of a session, a
\* time_update and a seek alike, is followed by the broadcast of the
\* emotion update and of the transcript update for the new time: the
\* handler is back at receive_text only after the transcript update, and a
\* sender that is still subscribed has been sent both updates for the time
C31_CursorUpdateBroadcasts ==
    [][\A c \in Conns :
          CursorUpdateHandled(c) =>
              /\ handler[c].stage \in {"transcript", "transcript_except"}
              /\ client[c] = "open" /\ c \in handler[c].loop.delivered =>
                    \A type \in {"emotion_update", "transcript_update"} :
                        \E m \in inbox[c] :
                            /\ m.type = type
                            /\ m.current_time = handler[c].message.current_time]_vars

\* C32: on every accepted connection of /ws/processing and /ws/realtime
\* the first message the server sends to the client is of type connected
C32_FirstIsConnected ==
    channel.first # "" => channel.first = "connected"

\* the extensions of the allow-list
Allowed == {".mp3", ".wav", ".mp4", ".avi", ".mov", ".mkv", ".webm", ".flv"}

\* the step answers an upload_file for a filename
Uploads ==
    /\ request' # request
    /\ request'.endpoint = "upload" /\ request'.status_code # 400

\* C33: an upload is accepted only if the extension of its filename is one
\* of mp3, wav, mp4, avi, mov, mkv, webm, flv; an upload with any other
\* extension is answered with 415 and supported_formats that contain "WAV",
\* it registers no file and starts no run
C33_OnlyAllowedFormats ==
    [][Uploads =>
          /\ request'.status_code = 200 => lower(request'.arg) \in Allowed
          /\ lower(request'.arg) \notin Allowed =>
                /\ request'.status_code = 415
                /\ "WAV" \in request'.supported_formats
                /\ store' = store
                /\ task' = task /\ active_processes' = active_processes]_vars

\* the step answers a get_transcript or a get_emotions
Answers == request' # request /\ request'.endpoint \in {"transcript", "emotions"}

\* C34: get_transcript and get_emotions answer by the same rules: 409 while
\* the file is known and its processing is not completed, 404 when the file
\* is unknown or the artifact is not in the cache, and 200 only with the
\* artifact the cache holds for the file
C34_SameRules ==
    [][Answers =>
          LET f == request'.arg
              kind == request'.endpoint
          IN  /\ f \in Files /\ uploaded_files[f] # COMPLETED =>
                    request'.status_code = 409
              /\ f \notin Files => request'.status_code = 404
              /\ f \in Files /\ uploaded_files[f] = COMPLETED
                 /\ cache[f][kind] = Absent => request'.status_code = 404
              /\ request'.status_code = 200 =>
                    /\ request'.by # Absent
                    /\ request'.by = cache[f][kind]]_vars

\* run r ends _cache_results and writes COMPLETED with this step
Completes(r) == task[r].pc = "cache_results" /\ task'[r].pc = "status_completed"

\* C35: re-processing overwrites the cached artifacts of a file wholesale:
\* when a run of the file completes, the cached transcript and the cached
\* emotions are both the ones this run produced, never those of an earlier
\* run
C35_ReprocessingOverwrites ==
    [][\A r \in Runs :
          Completes(r) =>
              /\ cache'[task[r].file]["transcript"] = r
              /\ cache'[task[r].file]["emotions"] = r]_vars

\* EmotionSegment.validate_combined_confidence, emotion_analysis.py lines
\* 39-47: v is refused when v < min_conf * 0.5 or v > max_conf * 1.1 (all in
\* units of 1/Scale, both sides times 10)
validate_combined_confidence(v, textual_confidence, tonal_confidence) ==
    LET min_conf == Min(textual_confidence, tonal_confidence)
        max_conf == Max(textual_confidence, tonal_confidence)
    IN  ~ (v * 10 < min_conf * 5 \/ v * 10 > max_conf * 11)

\* C36: every result of _fuse_emotions is accepted when the segment is
\* constructed: the combined confidence lies between 0.5 * min and 1.1 * max
\* of the textual and the tonal confidence
C36_FusionIsAccepted ==
    segment.pc = "fused" =>
        validate_combined_confidence(segment.result.confidence,
                                     segment.text_conf, segment.audio_conf)

\* C37: while the total cache size is within max_cache_size,
\* cleanup_expired_files removes no cache entry that is unexpired by its own
\* cached_at and whose file id has a metadata record, and it never removes
\* file_metadata.json
C37_SweepSparesLiveEntries ==
    [][store'.sweeps = store.sweeps + 1 /\ TotalSize(Disk) <= max_cache_size
       => /\ \A n \in CacheNames :
                (/\ Exists(cache_dir[n])
                 /\ ~expired(cache_dir[n].cached_at)
                 /\ store.file_metadata[n[1]].known)
                => cache_dir'[n] = cache_dir[n]
          /\ store.metadata_file => store'.metadata_file]_vars

\* a run of file f has written COMPLETED, or the record of the file or its
\* cached complete_results say so
ReachedCompleted(f) ==
    \/ \E r \in Runs : task[r].file = f
                       /\ \E i \in 1..Len(task[r].written) :
                             task[r].written[i].status = COMPLETED
    \/ status[f].status = COMPLETED
    \/ cache[f]["complete_results"] # Absent

\* C38: the status endpoint answers completed with progress 100 for a file
\* only if a run of the file reached COMPLETED (a COMPLETED record or the
\* cached complete_results exist); a file whose run never started, failed
\* or was lost is never reported as completed
C38_CompletedOnlyAfterCompletion ==
    (/\ request.endpoint = "status"
     /\ request.status_code = 200
     /\ request.status = COMPLETED
     /\ request.progress = 100)
    => ReachedCompleted(request.arg)

\* C39: a message of type completed is sent to the subscriber of the
\* processing channel of a file only if a run of the file has reached
\* COMPLETED; none is sent for a file whose status is not terminal and which
\* has no run in flight
C39_CompletedMessageOnlyAfterCompletion ==
    (channel.endpoint = "processing" /\ "completed" \in channel.sent)
    => ReachedCompleted(channel.file)

\* the two predictions are different emotions of the same confidence above 0
Tie ==
    /\ segment.pc = "fused"
    /\ segment.text_emotion # segment.audio_emotion
    /\ segment.text_conf = segment.audio_conf
    /\ segment.text_conf > 0

\* C40: different emotions of equal confidence c > 0 are fused to the audio
\* emotion with confidence 0.8 * c; the text emotion is the result of
\* different emotions only when its confidence is strictly greater
C40_TieGoesToAudio ==
    /\ Tie => segment.result = [emotion |-> segment.audio_emotion,
                                confidence |-> (segment.text_conf * 8) \div 10]
    /\ (/\ segment.pc = "fused"
        /\ segment.text_emotion # segment.audio_emotion
        /\ segment.text_conf + segment.audio_conf > 0
        /\ segment.result.emotion = segment.text_emotion)
       => segment.text_conf > segment.audio_conf

\* C40 witness: a tie at full confidence was fused to the audio emotion,
\* which is not the text emotion
C40_Witness ==
    /\ Tie
    /\ segment.text_conf = Scale
    /\ segment.result.emotion = segment.audio_emotion
    /\ segment.result.emotion # segment.text_emotion

====
